---- MODULE Spec2Model ----
(***************************************************************************)
(* The plugin subsystem of Only Code (onlycode/shared/plugins): the two    *)
(* script engines and their editor bridge, the action executor with its    *)
(* six handlers, and the plugin manager (registry, trigger resolution and  *)
(* the file-save / file-open dispatchers).                                 *)
(*                                                                         *)
(* A Python call is one action.  A handler is an operator that threads an  *)
(* execution state `st` (the host editor's values, the calls made on the   *)
(* host callbacks, the objects constructed) and returns how it ended:      *)
(* "true", "false" or "raise".  Text is a sequence of characters.  A       *)
(* missing dictionary key or a Python None is the value None.              *)
(***************************************************************************)
EXTENDS Integers, Sequences, FiniteSets, TLC

None == "<None>"

\* Bound of the model: how many EditorAPI/engine pairs one behaviour constructs.
MaxObjects == 2

VARIABLES
    lupa_available,    \* lua_engine.py: LUPA_AVAILABLE (when FALSE the module
                       \* imports only where `-> LuaRuntime` at line 48 is not
                       \* evaluated at definition time)
    safe_builtins,     \* PythonEngine.SAFE_BUILTINS: the names added to the class dict
    host_engine,       \* the PythonEngine or LuaEngine instance driven directly
    engine_run,        \* what the most recent direct engine call did and saw
    editor,            \* the host editor behind the callbacks
    callbacks,         \* ActionExecutor._notify_callback, _get_editor_text, ...
    plugin_base_path,  \* ActionExecutor._plugin_base_path
    objects,           \* number of EditorAPI/engine pairs constructed so far
    served,            \* per engine id, the script invocations it has served
    leaked,            \* names that script actions run by the executor have assigned
    last,              \* what ActionExecutor.execute did, if it was the latest call
    plugins,           \* PluginManager._plugins (a dict, in insertion order)
    action_executor,   \* PluginManager._action_executor is set
    dispatched,        \* what the PluginManager did, if its call was the latest
    loaded,            \* what the latest load_plugins call scanned and how it ended
    matched,           \* the latest TriggerContext.matches call and its result
    computed,          \* the latest direct call of a helper method and its result
    inflight,          \* per thread, how far its execute_trigger call has come
    running            \* the subprocess the external command handler waits for

engine_vars == <<safe_builtins, host_engine, engine_run>>
executor_vars == <<callbacks, plugin_base_path, objects, served, leaked, last>>
manager_vars == <<plugins, action_executor, dispatched, loaded>>
thread_vars == <<inflight, running>>
vars == <<lupa_available, editor, engine_vars, executor_vars, manager_vars,
          matched, computed, thread_vars>>

---------------------------------------------------------------------------
(* Sequences and Python dictionaries                                       *)

Range(s) == {s[i] : i \in 1..Len(s)}

Last(s) == s[Len(s)]

\* Python truthiness of an optional string
Truthy(v) == v # None /\ v # ""

\* dict.get(key, default) on a record whose missing keys hold None
Get(v, default) == IF v = None THEN default ELSE v

---------------------------------------------------------------------------
(* The host: its editor values and its callbacks                           *)

NoPath == [dir |-> None, name |-> None]

\* One call made on a host callback (or a print, when no notifier is set).
Call(cb, title, msg, detail, idx, text, pos) ==
    [cb |-> cb, title |-> title, msg |-> msg, detail |-> detail,
     idx |-> idx, text |-> text, pos |-> pos]

TextCall(cb, text) == Call(cb, None, None, None, -1, text, <<>>)

NotifyCall(cb, title, msg, detail, idx, text) ==
    Call(cb, title, msg, detail, idx, text, <<>>)

NoCallbacks ==
    [notify |-> "none", get_editor_text |-> "none", set_editor_text |-> "none",
     get_selection |-> "none", replace_selection |-> "none",
     insert_text |-> "none", get_cursor_position |-> "none",
     set_cursor_position |-> "none", get_file_path |-> "none",
     get_language |-> "none"]

CallbackNames == DOMAIN NoCallbacks

\* The execution state a call starts from.
St0(ed, objs, builtins) ==
    [editor |-> ed, calls |-> <<>>, objects |-> objs, engines |-> <<>>,
     trace |-> <<>>, done |-> <<>>, runs |-> <<>>, safe_builtins |-> builtins,
     left |-> <<>>]

\* The host's side of a setter: set_text and set_cursor_position change what
\* the getters return; the other setters are recorded only.
HostApply(ed, c) ==
    CASE c.cb = "set_editor_text" -> [ed EXCEPT !.text = c.text]
      [] c.cb = "set_cursor_position" -> [ed EXCEPT !.cursor = c.pos]
      [] OTHER -> ed

\* Calling a host callback that is set: "ok" performs the call, "raises"
\* makes the call and the callback raises.
Invoke(st, mode, c) ==
    [raised |-> (mode = "raises"),
     st |-> [st EXCEPT !.calls = Append(@, c),
                       !.editor = IF mode = "ok" THEN HostApply(@, c) ELSE @]]

Quiet(st) == [raised |-> FALSE, st |-> st]

---------------------------------------------------------------------------
(* scripting/editor_api.py: the bridge object handed to scripts            *)

\* EditorAPI.__init__: the callbacks it wraps; attrs are the attributes a
\* script has added to the instance.
EditorAPI(id, cbs) == [id |-> id, cb |-> cbs, attrs |-> {}]

API_insert_text(api, st, text) ==
    IF api.cb.insert_text # "none"
    THEN Invoke(st, api.cb.insert_text, TextCall("insert_text", text))
    ELSE Quiet(st)

API_set_text(api, st, text) ==
    IF api.cb.set_editor_text # "none"
    THEN Invoke(st, api.cb.set_editor_text, TextCall("set_editor_text", text))
    ELSE Quiet(st)

API_replace_selection(api, st, text) ==
    IF api.cb.replace_selection # "none"
    THEN Invoke(st, api.cb.replace_selection, TextCall("replace_selection", text))
    ELSE Quiet(st)

\* show_notification(message, title) calls the host with (title, message)
API_show_notification(api, st, message, title) ==
    IF api.cb.notify # "none"
    THEN Invoke(st, api.cb.notify,
                NotifyCall("notify", title, message, None, -1, <<>>))
    ELSE Quiet(st)

\* A mutant of get_cursor_position: the host's position is handed on as it is.
API_get_cursor_position_raw(api, st) ==
    IF api.cb.get_cursor_position # "none"
    THEN [raised |-> (api.cb.get_cursor_position = "raises"), st |-> st,
          value |-> st.editor.cursor]
    ELSE [raised |-> FALSE, st |-> st, value |-> <<1, 1>>]

\* get_cursor_position: the host's 0-based (line, col) made 1-based
API_get_cursor_position(api, st) ==
    IF api.cb.get_cursor_position # "none"
    THEN [raised |-> (api.cb.get_cursor_position = "raises"), st |-> st,
          value |-> <<st.editor.cursor[1] + 1, st.editor.cursor[2] + 1>>]
    ELSE [raised |-> FALSE, st |-> st, value |-> <<1, 1>>]

Max0(n) == IF n < 0 THEN 0 ELSE n

\* set_cursor_position: 1-based made 0-based, clamped at 0
API_set_cursor_position(api, st, line, column) ==
    IF api.cb.set_cursor_position # "none"
    THEN Invoke(st, api.cb.set_cursor_position,
                Call("set_cursor_position", None, None, None, -1, <<>>,
                     <<Max0(line - 1), Max0(column - 1)>>))
    ELSE Quiet(st)

\* Lua's numbers, as the model has them: a number is written as twice its
\* value, so that halves exist; int(n) truncates towards zero.
LuaNumber(n) == 2 * n

ToInt(n2) == IF n2 >= 0 THEN n2 \div 2 ELSE -((-n2) \div 2)

\* LuaEngine._expose_editor_api: get_cursor_pos returns the bridge's
\* position as a Lua table, set_cursor_pos hands int(line), int(column) on
Lua_get_cursor_pos(api, st) ==
    [API_get_cursor_position(api, st) EXCEPT
        !.value = <<LuaNumber(@[1]), LuaNumber(@[2])>>]

Lua_set_cursor_pos(api, st, line, column) ==
    API_set_cursor_position(api, st, ToInt(line), ToInt(column))

\* What a script of either kind gets and sets: Python's editor is the
\* bridge itself, Lua's goes through the two wrappers.
Script_get_cursor(kind, api, st) ==
    IF kind = "lua"
    THEN [Lua_get_cursor_pos(api, st) EXCEPT !.value = <<ToInt(@[1]), ToInt(@[2])>>]
    ELSE API_get_cursor_position(api, st)

Script_set_cursor(kind, api, st, line, column) ==
    IF kind = "lua"
    THEN Lua_set_cursor_pos(api, st, LuaNumber(line), LuaNumber(column))
    ELSE API_set_cursor_position(api, st, line, column)

---------------------------------------------------------------------------
(* Scripts.  A script is a syntax flag and a sequence of statements:       *)
(*   set_global n       n = 1                                              *)
(*   def_func n body    def n(): body          / function n() body end     *)
(*   use_global n       an expression reading n (an error when undefined)  *)
(*   probe_global n     try: n / except Exception   / if n ~= nil          *)
(*   set_builtin n      __builtins__['n'] = 1  / string.n = 1              *)
(*   use_builtin n      __builtins__['n']      / assert(string.n)          *)
(*   set_attr n         editor.n = 1                                       *)
(*   use_attr n         editor.n (an error when unset)                     *)
(*   insert_text t      editor.insert_text(t)                              *)
(*   set_text t         editor.set_text(t)                                 *)
(*   call_open          open('f')              / io.open('f')              *)
(*   raise_base         raise Exception.__base__()  / error('e')              *)
(*   import_os          import os              / require('os')             *)
(*   reach_open         editor.set_text.__globals__['__builtins__']['open']('f') *)
(*                                             / python.builtins.open('f') *)

Stmt(op, name, text, body) == [op |-> op, name |-> name, text |-> text, body |-> body]

S(op, name) == Stmt(op, name, <<>>, <<>>)

NoError == [msg |-> None, arg |-> None]

Error(msg, arg) == [msg |-> msg, arg |-> arg]

\* One observation a script makes of a name it reads.
Read(kind, name, defined, own) ==
    [kind |-> kind, name |-> name, defined |-> defined, own |-> own]

\* A namespace: the user's globals, the definitions behind them, the names
\* added to the builtins (Python: the __builtins__ dict, Lua: the string
\* table), the fields added to Lua's editor table, and whether the builtins
\* dict is the class's own dict rather than a copy of it.
Namespace(builtins, shared) ==
    [live |-> TRUE, globals |-> {}, defs |-> <<>>, builtins |-> builtins,
     fields |-> {}, shared |-> shared]

NoRuntime ==
    [live |-> FALSE, globals |-> {}, defs |-> <<>>, builtins |-> {},
     fields |-> {}, shared |-> FALSE]

\* The most recent definition of a name, or 0.
RECURSIVE LookupDef(_, _, _)
LookupDef(defs, name, i) ==
    IF i = 0 THEN 0
    ELSE IF defs[i].name = name THEN i ELSE LookupDef(defs, name, i - 1)

\* The running script: x.err is the exception that ended it, if any.
Running(kind, ns, api, st) ==
    [kind |-> kind, ns |-> ns, api |-> api, st |-> st, reads |-> <<>>,
     assigned |-> {}, own_attrs |-> {}, own_builtins |-> {}, reached |-> {},
     err |-> NoError]

Raise(x, msg, arg) == [x EXCEPT !.err = Error(msg, arg)]

\* The effect of a host call made through the bridge.
AfterHost(x, r) ==
    IF r.raised THEN Raise([x EXCEPT !.st = r.st], "HostError", None)
    ELSE [x EXCEPT !.st = r.st]

\* Where a script's editor attributes live: Python's `editor` is the
\* engine's EditorAPI instance itself (python_engine.py:101); Lua's `editor`
\* is a table created in the runtime (lua_engine.py:89-93).
AttrDefined(x, n) ==
    IF x.kind = "python" THEN n \in x.api.attrs ELSE n \in x.ns.fields

SetAttr(x, n) ==
    IF x.kind = "python"
    THEN [x EXCEPT !.api.attrs = @ \cup {n}, !.own_attrs = @ \cup {n}]
    ELSE [x EXCEPT !.ns.fields = @ \cup {n}, !.own_attrs = @ \cup {n}]

\* Python resolves a name in the globals and then in the builtins.
GlobalDefined(x, n) ==
    IF x.kind = "python" THEN n \in x.ns.globals \cup x.ns.builtins
    ELSE n \in x.ns.globals

\* What a script reaches besides the admitted names.  Python's `editor` is
\* the EditorAPI object itself (python_engine.py:101): the __globals__ of
\* its methods are the bridge module's globals, whose __builtins__ are the
\* interpreter's.  A LuaRuntime is made with lupa's defaults and its global
\* `python` is not among the globals set to nil (lua_engine.py:51, 64-70).
Reachable(kind) ==
    IF kind = "python" THEN {"open", "__import__"} ELSE {"python.builtins"}

Step(x, s) ==
    CASE s.op = "set_global" ->
           [x EXCEPT !.ns.globals = @ \cup {s.name},
                     !.ns.defs = Append(@, [name |-> s.name, callable |-> FALSE,
                                            body |-> <<>>]),
                     !.assigned = @ \cup {s.name}]
      [] s.op = "def_func" ->
           [x EXCEPT !.ns.globals = @ \cup {s.name},
                     !.ns.defs = Append(@, [name |-> s.name, callable |-> TRUE,
                                            body |-> s.body]),
                     !.assigned = @ \cup {s.name}]
      [] s.op = "use_global" ->
           LET d == GlobalDefined(x, s.name)
               y == [x EXCEPT !.reads = Append(@, Read("global", s.name, d,
                                               s.name \in x.assigned))]
           IN IF d THEN y ELSE Raise(y, "NameError", s.name)
      [] s.op = "probe_global" ->
           [x EXCEPT !.reads = Append(@, Read("global", s.name,
                                   GlobalDefined(x, s.name), s.name \in x.assigned))]
      [] s.op = "set_builtin" ->
           [x EXCEPT !.ns.builtins = @ \cup {s.name},
                     !.own_builtins = @ \cup {s.name}]
      [] s.op = "use_builtin" ->
           LET d == s.name \in x.ns.builtins
               y == [x EXCEPT !.reads = Append(@, Read("builtin", s.name, d,
                                               s.name \in x.own_builtins))]
           IN IF d THEN y ELSE Raise(y, "KeyError", s.name)
      [] s.op = "set_attr" -> SetAttr(x, s.name)
      [] s.op = "use_attr" ->
           LET d == AttrDefined(x, s.name)
               y == [x EXCEPT !.reads = Append(@, Read("attr", s.name, d,
                                               s.name \in x.own_attrs))]
           IN IF d THEN y ELSE Raise(y, "AttributeError", s.name)
      [] s.op = "insert_text" -> AfterHost(x, API_insert_text(x.api, x.st, s.text))
      [] s.op = "set_text" -> AfterHost(x, API_set_text(x.api, x.st, s.text))
      [] s.op = "call_open" -> Raise(x, "NameError", "open")
      [] s.op = "import_os" -> Raise(x, "ImportError", "os")
      [] s.op = "reach_open" -> [x EXCEPT !.reached = @ \cup Reachable(x.kind)]
      [] s.op = "raise_base" ->
           IF x.kind = "python" THEN Raise(x, "BaseException", None)
           ELSE Raise(x, "LuaError", None)
      [] OTHER -> Raise(x, "SyntaxError", None)

\* A mutant of the statement loop: an exception does not end the script.
RECURSIVE RunStmts_on(_, _, _)
RunStmts_on(x, stmts, i) ==
    IF i > Len(stmts) THEN x
    ELSE RunStmts_on(Step(x, stmts[i]), stmts, i + 1)

\* Statements run in order; the first exception ends the script.
RECURSIVE RunStmts(_, _, _)
RunStmts(x, stmts, i) ==
    IF i > Len(stmts) \/ x.err # NoError THEN x
    ELSE RunStmts(Step(x, stmts[i]), stmts, i + 1)

\* compile + exec (Python), lua.execute (Lua)
RunScript(x, script) ==
    IF ~script.syntax_ok THEN Raise(x, "SyntaxError", None)
    ELSE RunStmts(x, script.body, 1)

\* The scripts the model runs, by name; "" is the empty source.
ScriptSource(code) ==
    CASE code = "set_x" ->
           [syntax_ok |-> TRUE, body |-> <<S("set_global", "x")>>]
      [] code = "use_x" ->
           [syntax_ok |-> TRUE, body |-> <<S("use_global", "x")>>]
      [] code = "probe_set_x" ->
           [syntax_ok |-> TRUE,
            body |-> <<S("probe_global", "x"), S("set_global", "x")>>]
      [] code = "stash_builtin" ->
           [syntax_ok |-> TRUE,
            body |-> <<S("set_builtin", "x"), S("use_builtin", "x")>>]
      [] code = "use_builtin" ->
           [syntax_ok |-> TRUE, body |-> <<S("use_builtin", "x")>>]
      [] code = "stash_attr" ->
           [syntax_ok |-> TRUE, body |-> <<S("set_attr", "leak")>>]
      [] code = "use_attr" ->
           [syntax_ok |-> TRUE, body |-> <<S("use_attr", "leak")>>]
      [] code = "edit_open" ->
           [syntax_ok |-> TRUE,
            body |-> <<Stmt("insert_text", None, <<"a">>, <<>>),
                       S("call_open", None),
                       Stmt("insert_text", None, <<"b">>, <<>>)>>]
      [] code = "defs" ->
           [syntax_ok |-> TRUE,
            body |-> <<Stmt("def_func", "main", <<>>,
                            <<Stmt("insert_text", None, <<"m">>, <<>>)>>),
                       S("set_global", "data")>>]
      [] code = "defs_edit" ->
           [syntax_ok |-> TRUE,
            body |-> <<Stmt("def_func", "main", <<>>,
                            <<Stmt("insert_text", None, <<"m">>, <<>>)>>),
                       Stmt("set_text", None, <<"t">>, <<>>)>>]
      [] code = "defs_open" ->
           [syntax_ok |-> TRUE,
            body |-> <<Stmt("def_func", "main", <<>>,
                            <<Stmt("insert_text", None, <<"m">>, <<>>)>>),
                       S("call_open", None)>>]
      [] code = "main_opens" ->
           [syntax_ok |-> TRUE,
            body |-> <<Stmt("def_func", "main", <<>>,
                            <<Stmt("set_text", None, <<"m">>, <<>>),
                              S("call_open", None),
                              Stmt("insert_text", None, <<"n">>, <<>>)>>)>>]
      [] code = "text_open" ->
           [syntax_ok |-> TRUE,
            body |-> <<Stmt("set_text", None, <<"s">>, <<>>),
                       S("call_open", None),
                       Stmt("set_text", None, <<"z">>, <<>>)>>]
      [] code = "import_os" ->
           [syntax_ok |-> TRUE, body |-> <<S("import_os", None)>>]
      [] code = "reach_open" ->
           [syntax_ok |-> TRUE, body |-> <<S("reach_open", None)>>]
      [] code = "raise_base" ->
           [syntax_ok |-> TRUE,
            body |-> <<Stmt("set_text", None, <<"r">>, <<>>), S("raise_base", None)>>]
      [] code = "bad_syntax" -> [syntax_ok |-> FALSE, body |-> <<>>]
      [] OTHER -> [syntax_ok |-> TRUE, body |-> <<>>]

\* The script files on disk: plugin directory and file name to what is there.
Path(dir, name) == [dir |-> dir, name |-> name]

FS(path) ==
    CASE path = Path("alpha", "main.py") -> "set_x"
      [] path = Path("beta", "main.py") -> "use_x"
      [] path = Path("beta", "locked.py") -> "unreadable"
      [] path = Path(None, "main.py") -> "probe_set_x"
      [] OTHER -> "missing"

ScriptFiles ==
    {Path("alpha", "main.py"), Path("beta", "main.py"),
     Path("beta", "locked.py"), Path("alpha", "gone.py")}

---------------------------------------------------------------------------
(* scripting/python_engine.py and scripting/lua_engine.py                  *)

\* What scripts run earlier on an engine have bound (history, not code).
NoHistory == [globals |-> {}, builtins |-> {}, attrs |-> {}]

\* PythonEngine.__init__ / LuaEngine.__init__
PythonEngine(id, api) ==
    [id |-> id, kind |-> "python", editor_api |-> api, lua |-> NoRuntime,
     last_error |-> NoError, history |-> NoHistory]

LuaEngine(id, api) ==
    [id |-> id, kind |-> "lua", editor_api |-> api, lua |-> NoRuntime,
     last_error |-> NoError, history |-> NoHistory]

\* The keys of a fresh restricted_globals besides the user's own.
PyGlobals0 == {"__builtins__", "__name__", "__doc__", "editor"}

\* The globals of a fresh Lua runtime that the model names: a function and
\* two tables.
LuaFunctions0 == {"print"}

LuaGlobals0 == LuaFunctions0 \cup {"string", "editor"}

\* PythonEngine._create_restricted_globals: a new dict holding a copy of
\* SAFE_BUILTINS and the engine's editor_api.
Py_create_restricted_globals(eng, st) == Namespace(st.safe_builtins, FALSE)

\* A mutant of _create_runtime: the runtime is created once and kept.
Lua_create_runtime_once(eng, st) ==
    IF eng.lua.live THEN eng.lua ELSE Namespace({}, FALSE)

\* LuaEngine._create_runtime: a new LuaRuntime with a new editor table.
Lua_create_runtime(eng, st) == Namespace({}, FALSE)

\* The record of one engine call.
EngineRun(eng, op, code, entry, ret, x) ==
    [engine |-> eng.id, kind |-> eng.kind, op |-> op, code |-> code,
     entry |-> entry, ret |-> ret, reads |-> x.reads, calls |-> x.st.calls,
     prior |-> eng.history, raised |-> (x.err.msg = "BaseException"),
     reached |-> x.reached]

NoRun ==
    [engine |-> 0, kind |-> None, op |-> None, code |-> None, entry |-> None,
     ret |-> FALSE, reads |-> <<>>, calls |-> <<>>, prior |-> NoHistory,
     raised |-> FALSE, reached |-> {}]

\* The engine after a call: its bridge as the script left it, Lua's runtime
\* kept in self._lua, the error, and what the script bound.
EngineAfter(eng, x, err) ==
    [eng EXCEPT !.editor_api = x.api,
                !.lua = IF eng.kind = "lua" THEN x.ns ELSE @,
                !.last_error = err,
                !.history = [globals |-> @.globals \cup x.assigned,
                             builtins |-> @.builtins \cup x.own_builtins,
                             attrs |-> @.attrs \cup x.own_attrs]]

\* A write to a builtins dict that is the class dict reaches the class.
StAfter(x) ==
    IF x.ns.shared THEN [x.st EXCEPT !.safe_builtins = x.ns.builtins] ELSE x.st

\* `except Exception` takes every exception of the script but one that is
\* no Exception: that one leaves the call, and _last_error stays as it was.
Failed(eng, op, code, entry, x) ==
    IF x.err.msg = "BaseException"
    THEN [ret |-> FALSE, raised |-> TRUE, eng |-> EngineAfter(eng, x, eng.last_error),
          st |-> StAfter(x), run |-> EngineRun(eng, op, code, entry, FALSE, x)]
    ELSE [ret |-> FALSE, raised |-> FALSE, eng |-> EngineAfter(eng, x, x.err),
          st |-> StAfter(x), run |-> EngineRun(eng, op, code, entry, FALSE, x)]

Returned(eng, op, code, entry, ret, x, err) ==
    [ret |-> ret, raised |-> FALSE, eng |-> EngineAfter(eng, x, err),
     st |-> StAfter(x), run |-> EngineRun(eng, op, code, entry, ret, x)]

\* func(): the entry point's body has run
Called(eng, op, code, entry_point, x2) ==
    IF x2.err # NoError THEN Failed(eng, op, code, entry_point, x2)
    ELSE Returned(eng, op, code, entry_point, TRUE, x2, NoError)

\* the entry point of a loaded script, d its definition (0: none)
CallDef(eng, op, code, entry_point, x1, d) ==
    Called(eng, op, code, entry_point, RunStmts(x1, x1.ns.defs[d].body, 1))

\* PythonEngine.execute_string after exec(compiled, restricted_globals)
Py_loaded(eng, op, code, entry_point, x1, d) ==
    IF x1.err # NoError THEN Failed(eng, op, code, entry_point, x1)
    ELSE IF ~Truthy(entry_point)
    THEN Returned(eng, op, code, entry_point, TRUE, x1, NoError)
    ELSE IF entry_point \notin PyGlobals0 \cup x1.ns.globals
    THEN Returned(eng, op, code, entry_point, FALSE, x1,
                  Error("Entry point not found", entry_point))
    ELSE IF d = 0 \/ ~x1.ns.defs[d].callable
    THEN Returned(eng, op, code, entry_point, FALSE, x1,
                  Error("Entry point is not callable", entry_point))
    ELSE CallDef(eng, op, code, entry_point, x1, d)

Py_exec(eng, op, code, entry_point, x1) ==
    Py_loaded(eng, op, code, entry_point, x1,
              LookupDef(x1.ns.defs, entry_point, Len(x1.ns.defs)))

\* PythonEngine.execute_string
Py_execute_string(eng, st, code, entry_point, op) ==
    Py_exec(eng, op, code, entry_point,
            RunScript(Running("python", Py_create_restricted_globals(eng, st),
                              eng.editor_api, st),
                      ScriptSource(code)))

\* The return of execute_file when the file cannot be run.
NotRun(eng, st, path, entry_point, msg) ==
    [ret |-> FALSE, raised |-> FALSE,
     eng |-> [eng EXCEPT !.last_error = Error(msg, path.name)],
     st |-> st,
     run |-> [engine |-> eng.id, kind |-> eng.kind, op |-> "execute_file",
              code |-> None, entry |-> entry_point, ret |-> FALSE,
              reads |-> <<>>, calls |-> st.calls, prior |-> eng.history,
              raised |-> FALSE, reached |-> {}]]

\* PythonEngine.execute_file, `code` what is at file_path
Py_execute_read(eng, st, file_path, entry_point, code) ==
    IF code = "missing"
    THEN NotRun(eng, st, file_path, entry_point, "Script file not found")
    ELSE IF code = "unreadable"
    THEN NotRun(eng, st, file_path, entry_point, "Failed to read script")
    ELSE Py_execute_string(eng, st, code, entry_point, "execute_file")

Py_execute_file(eng, st, file_path, entry_point) ==
    Py_execute_read(eng, st, file_path, entry_point, FS(file_path))

\* LuaEngine.execute_string after lua.execute(code)
Lua_loaded(eng, op, code, entry_point, x1, d) ==
    IF x1.err # NoError THEN Failed(eng, op, code, entry_point, x1)
    ELSE IF ~Truthy(entry_point)
    THEN Returned(eng, op, code, entry_point, TRUE, x1, NoError)
    ELSE IF entry_point \notin LuaGlobals0 \cup x1.ns.globals
    THEN Returned(eng, op, code, entry_point, FALSE, x1,
                  Error("Entry point not found", entry_point))
    ELSE IF d = 0 /\ entry_point \in LuaFunctions0
    THEN Returned(eng, op, code, entry_point, TRUE, x1, NoError)
    ELSE IF d = 0 \/ ~x1.ns.defs[d].callable
    THEN Returned(eng, op, code, entry_point, FALSE, x1,
                  Error("TypeError", entry_point))
    ELSE CallDef(eng, op, code, entry_point, x1, d)

Lua_exec(eng, op, code, entry_point, x1) ==
    Lua_loaded(eng, op, code, entry_point, x1,
               LookupDef(x1.ns.defs, entry_point, Len(x1.ns.defs)))

\* LuaEngine.execute_string
Lua_execute_string(eng, st, code, entry_point, op) ==
    Lua_exec(eng, op, code, entry_point,
             RunScript(Running("lua", Lua_create_runtime(eng, st), eng.editor_api, st),
                       ScriptSource(code)))

\* LuaEngine.execute_file, `code` what is at file_path
Lua_execute_read(eng, st, file_path, entry_point, code) ==
    IF code = "missing"
    THEN NotRun(eng, st, file_path, entry_point, "Script file not found")
    ELSE IF code = "unreadable"
    THEN NotRun(eng, st, file_path, entry_point, "Failed to read script")
    ELSE Lua_execute_string(eng, st, code, entry_point, "execute_file")

Lua_execute_file(eng, st, file_path, entry_point) ==
    Lua_execute_read(eng, st, file_path, entry_point, FS(file_path))

---------------------------------------------------------------------------
(* Text: str methods used by the handlers                                  *)

NL == "\n"

Ord(c) ==
    CASE c = NL -> 10 [] c = " " -> 32 [] c = "$" -> 36 [] c = "." -> 46
      [] c = "A" -> 65 [] c = "B" -> 66 [] c = "a" -> 97 [] c = "b" -> 98
      [] c = "{" -> 123 [] c = "}" -> 125 [] OTHER -> 63

Upper(c) == CASE c = "a" -> "A" [] c = "b" -> "B" [] OTHER -> c

Lower(c) == CASE c = "A" -> "a" [] c = "B" -> "b" [] OTHER -> c

IsCased(c) == c \in {"a", "b", "A", "B"}

IsSpace(c) == c \in {" ", NL}

Take(text, n) == SubSeq(text, 1, IF Len(text) < n THEN Len(text) ELSE n)

\* str.upper, str.lower
StrUpper(text) == [i \in 1..Len(text) |-> Upper(text[i])]

StrLower(text) == [i \in 1..Len(text) |-> Lower(text[i])]

\* str.title: a cased character is upper after an uncased one, else lower
StrTitle(text) ==
    [i \in 1..Len(text) |->
        IF i > 1 /\ IsCased(text[i - 1]) THEN Lower(text[i]) ELSE Upper(text[i])]

\* str.split('\n'): the lines, at least one
RECURSIVE SplitLines(_, _, _)
SplitLines(text, i, cur) ==
    IF i > Len(text) THEN <<cur>>
    ELSE IF text[i] = NL THEN <<cur>> \o SplitLines(text, i + 1, <<>>)
    ELSE SplitLines(text, i + 1, Append(cur, text[i]))

Split(text) == SplitLines(text, 1, <<>>)

\* '\n'.join(lines)
RECURSIVE Join(_)
Join(lines) ==
    IF Len(lines) = 0 THEN <<>>
    ELSE IF Len(lines) = 1 THEN lines[1]
    ELSE lines[1] \o <<NL>> \o Join(Tail(lines))

\* a < b on strings: by code point, a proper prefix first
RECURSIVE StrLess(_, _)
StrLess(a, b) ==
    IF Len(b) = 0 THEN FALSE
    ELSE IF Len(a) = 0 THEN TRUE
    ELSE IF Ord(a[1]) # Ord(b[1]) THEN Ord(a[1]) < Ord(b[1])
    ELSE StrLess(Tail(a), Tail(b))

\* sorted(lines): stable, ascending
RECURSIVE InsertSorted(_, _)
InsertSorted(sorted, line) ==
    IF Len(sorted) = 0 THEN <<line>>
    ELSE IF StrLess(line, sorted[1]) THEN <<line>> \o sorted
    ELSE <<sorted[1]>> \o InsertSorted(Tail(sorted), line)

RECURSIVE Sorted(_, _, _)
Sorted(lines, i, acc) ==
    IF i > Len(lines) THEN acc
    ELSE Sorted(lines, i + 1, InsertSorted(acc, lines[i]))

Reversed(lines) == [i \in 1..Len(lines) |-> lines[Len(lines) + 1 - i]]

\* A mutant of the unique_lines loop: a line is kept where it is seen last.
RECURSIVE Unique_last(_, _, _)
Unique_last(lines, i, unique) ==
    IF i > Len(lines) THEN unique
    ELSE IF \E j \in (i + 1)..Len(lines) : lines[j] = lines[i]
    THEN Unique_last(lines, i + 1, unique)
    ELSE Unique_last(lines, i + 1, Append(unique, lines[i]))

\* the unique_lines loop: a line is kept the first time it is seen
RECURSIVE Unique(_, _, _)
Unique(lines, i, unique) ==
    IF i > Len(lines) THEN unique
    ELSE IF lines[i] \in Range(unique) THEN Unique(lines, i + 1, unique)
    ELSE Unique(lines, i + 1, Append(unique, lines[i]))

\* str.rstrip
RECURSIVE RStrip(_)
RStrip(line) ==
    IF Len(line) > 0 /\ IsSpace(line[Len(line)])
    THEN RStrip(SubSeq(line, 1, Len(line) - 1)) ELSE line

\* line.strip() is non-empty
NotBlank(line) == \E i \in 1..Len(line) : ~IsSpace(line[i])

RECURSIVE KeepNotBlank(_, _)
KeepNotBlank(lines, i) ==
    IF i > Len(lines) THEN <<>>
    ELSE IF NotBlank(lines[i]) THEN <<lines[i]>> \o KeepNotBlank(lines, i + 1)
    ELSE KeepNotBlank(lines, i + 1)

StartsWith(s, i, pat) ==
    /\ i + Len(pat) - 1 <= Len(s)
    /\ SubSeq(s, i, i + Len(pat) - 1) = pat

\* str.replace(pat, rep), pat not empty: left to right, not overlapping
RECURSIVE ReplaceFrom(_, _, _, _)
ReplaceFrom(s, i, pat, rep) ==
    IF i > Len(s) THEN <<>>
    ELSE IF StartsWith(s, i, pat) THEN rep \o ReplaceFrom(s, i + Len(pat), pat, rep)
    ELSE <<s[i]>> \o ReplaceFrom(s, i + 1, pat, rep)

Replace(s, pat, rep) == ReplaceFrom(s, 1, pat, rep)

---------------------------------------------------------------------------
(* models.py: ActionType, Action.  An action's config holds every key the  *)
(* handlers read; a key the manifest does not give is None (a list: <<>>). *)

ActionTypes ==
    {"external_command", "snippet", "transform", "notify", "chain", "script"}

Config0 ==
    [type |-> None, command |-> None, input |-> None, output |-> None,
     working_dir |-> None, template |-> <<>>, variables |-> <<>>,
     transform |-> None, target |-> None, title |-> None, message |-> None,
     actions |-> <<>>, engine |-> None, file |-> None, code |-> None,
     entry_point |-> None]

\* Action(id, type, config); the id of a chain's i-th temporary action is
\* the chain's id followed by i ("<id>_chain_<i>").
Action(id, type, config) == [id |-> id, type |-> type, config |-> config]

\* Action.from_dict(action_id, data), data['type'] a valid ActionType
Action_from_dict(action_id, data) ==
    Action(<<action_id>>, data.type, [data EXCEPT !.type = None])

---------------------------------------------------------------------------
(* actions.py: ActionExecutor                                              *)

\* How a handler ends: ret is "true", "false" or "raise" (exc says what).
Ret(ret, st) == [ret |-> ret, st |-> st, exc |-> None]

Raised(st, exc) == [ret |-> "raise", st |-> st, exc |-> exc]

\* ActionExecutor._notify: the host's notifier, or print when none is set
Notify(ex, st, title, msg, detail, idx, text) ==
    IF ex.cb.notify # "none"
    THEN Invoke(st, ex.cb.notify, NotifyCall("notify", title, msg, detail, idx, text))
    ELSE Invoke(st, "ok", NotifyCall("print", title, msg, detail, idx, text))

\* self._notify(...); return False
NotifyFalse(ex, st, title, msg, detail, idx, text) ==
    LET n == Notify(ex, st, title, msg, detail, idx, text)
    IN  IF n.raised THEN Raised(n.st, "HostError") ELSE Ret("false", n.st)

\* subprocess.run(command, shell=True, input=stdin, timeout=30): what the
\* shell does with each command the model runs.
Shell(command, stdin_data) ==
    CASE command = "cat" ->
           [kind |-> "exit", rc |-> 0, stdout |-> stdin_data, stderr |-> <<>>]
      [] command = "fmt" ->
           [kind |-> "exit", rc |-> 0, stdout |-> <<"a", NL, "b">>, stderr |-> <<>>]
      [] command = "fail" ->
           [kind |-> "exit", rc |-> 1, stdout |-> <<"a">>, stderr |-> <<"b", "a">>]
      [] command = "fail_quiet" ->
           [kind |-> "exit", rc |-> 2, stdout |-> <<"a">>, stderr |-> <<>>]
      [] command = "sleep" ->
           [kind |-> "timeout", rc |-> -1, stdout |-> <<"a">>, stderr |-> <<>>]
      [] OTHER ->
           [kind |-> "oserror", rc |-> -1, stdout |-> <<>>, stderr |-> <<>>]

StderrLimit == 200

OutputLimit == 500

\* the except clauses of the handler's try
CommandError(ex, st, exc) ==
    NotifyFalse(ex, st, "Command Error", exc, None, -1, <<>>)

\* ActionExecutor._execute_external_command
Exec_external_command(ex, st, action) ==
    LET config == action.config
        input_type == Get(config.input, "none")
        output_type == Get(config.output, "none")
        from_text == input_type = "file_contents" /\ ex.cb.get_editor_text # "none"
        from_sel == ~from_text /\ input_type = "selection"
                    /\ ex.cb.get_selection # "none"
        stdin_data == IF from_text THEN st.editor.text
                      ELSE IF from_sel THEN st.editor.selection ELSE <<>>
        ask_path == ~Truthy(config.working_dir) /\ ex.cb.get_file_path # "none"
        result == Shell(config.command, stdin_data)
        output == result.stdout
        failed == Notify(ex, st, "Command Failed",
                         IF result.stderr # <<>> THEN "stderr" ELSE "exit code",
                         None, result.rc, Take(result.stderr, StderrLimit))
        setter == CASE output_type = "replace_file_contents"
                         /\ ex.cb.set_editor_text # "none" -> "set_editor_text"
                    [] output_type = "replace_selection"
                         /\ ex.cb.replace_selection # "none" -> "replace_selection"
                    [] output_type = "insert"
                         /\ ex.cb.insert_text # "none" -> "insert_text"
                    [] OTHER -> None
        applied == Invoke(st, ex.cb[setter], TextCall(setter, output))
        shown == Notify(ex, st, "Command Output", None, None, -1,
                        Take(output, OutputLimit))
    IN  IF ~Truthy(config.command)
        THEN NotifyFalse(ex, st, "Plugin Error", "No command specified", None, -1, <<>>)
        ELSE IF from_text /\ ex.cb.get_editor_text = "raises" THEN Raised(st, "HostError")
        ELSE IF from_sel /\ ex.cb.get_selection = "raises" THEN Raised(st, "HostError")
        ELSE IF ask_path /\ ex.cb.get_file_path = "raises" THEN Raised(st, "HostError")
        ELSE IF result.kind = "timeout"
        THEN NotifyFalse(ex, st, "Command Timeout", "Command took too long to execute",
                         None, -1, <<>>)
        ELSE IF result.kind = "oserror" THEN CommandError(ex, st, "OSError")
        ELSE IF result.rc # 0
        THEN IF failed.raised THEN CommandError(ex, failed.st, "HostError")
             ELSE Ret("false", failed.st)
        ELSE IF setter # None
        THEN IF applied.raised THEN CommandError(ex, applied.st, "HostError")
             ELSE Ret("true", applied.st)
        ELSE IF output_type = "notify"
        THEN IF shown.raised THEN CommandError(ex, shown.st, "HostError")
             ELSE Ret("true", shown.st)
        ELSE Ret("true", st)

\* The clock: datetime.now() as '%Y-%m-%d' and as '%Y-%m-%d %H:%M:%S'.
Today == <<"A">>

Now == <<"A", " ", "B">>

\* str(file_path) of the editor's file
PathText(path) == path.dir \o <<"/">> \o path.name

\* A snippet variable's source is one of the five names the handler knows,
\* or "literal": any other value, used as str(value).
VarValue(ex, st, source) ==
    CASE source.kind = "selection" /\ ex.cb.get_selection # "none" ->
           [raised |-> ex.cb.get_selection = "raises", value |-> st.editor.selection]
      [] source.kind = "file_name" /\ ex.cb.get_file_path # "none" ->
           [raised |-> ex.cb.get_file_path = "raises",
            value |-> IF st.editor.file_path = NoPath THEN <<>>
                      ELSE st.editor.file_path.name]
      [] source.kind = "file_path" /\ ex.cb.get_file_path # "none" ->
           [raised |-> ex.cb.get_file_path = "raises",
            value |-> IF st.editor.file_path = NoPath THEN <<>>
                      ELSE PathText(st.editor.file_path)]
      [] source.kind = "date" -> [raised |-> FALSE, value |-> Today]
      [] source.kind = "datetime" -> [raised |-> FALSE, value |-> Now]
      [] OTHER -> [raised |-> FALSE, value |-> source.text]

\* the substitution loop: ${name} and then $name, variable by variable
RECURSIVE Substitute(_, _, _, _, _)
Substitute(ex, st, result, variables, i) ==
    IF i > Len(variables) THEN result
    ELSE LET name == variables[i].name
             value == VarValue(ex, st, variables[i].source).value
             braced == Replace(result, <<"$", "{">> \o name \o <<"}">>, value)
         IN  Substitute(ex, st, Replace(braced, <<"$">> \o name, value),
                        variables, i + 1)

\* ActionExecutor._execute_snippet
Exec_snippet(ex, st, action) ==
    LET config == action.config
        variables == config.variables
        result == Substitute(ex, st, config.template, variables, 1)
        inserted == Invoke(st, ex.cb.insert_text, TextCall("insert_text", result))
    IN  IF \E i \in 1..Len(variables) : VarValue(ex, st, variables[i].source).raised
        THEN Raised(st, "HostError")
        ELSE IF ex.cb.insert_text = "none" THEN Ret("false", st)
        ELSE IF inserted.raised THEN Raised(inserted.st, "HostError")
        ELSE Ret("true", inserted.st)

Transforms ==
    {"uppercase", "lowercase", "titlecase", "sort_lines", "reverse_lines",
     "unique_lines", "trim_whitespace", "remove_blank_lines"}

\* ActionExecutor._apply_transform for a known transform
Apply_transform(text, transform) ==
    LET lines == Split(text)
    IN  CASE transform = "uppercase" -> StrUpper(text)
          [] transform = "lowercase" -> StrLower(text)
          [] transform = "titlecase" -> StrTitle(text)
          [] transform = "sort_lines" -> Join(Sorted(lines, 1, <<>>))
          [] transform = "reverse_lines" -> Join(Reversed(lines))
          [] transform = "unique_lines" -> Join(Unique(lines, 1, <<>>))
          [] transform = "trim_whitespace" ->
               Join([i \in 1..Len(lines) |-> RStrip(lines[i])])
          [] transform = "remove_blank_lines" -> Join(KeepNotBlank(lines, 1))

\* ActionExecutor._execute_transform (with _apply_transform's else branch)
Exec_transform(ex, st, action) ==
    LET config == action.config
        transform == Get(config.transform, "")
        target == Get(config.target, "selection")
        on_sel == target = "selection" /\ ex.cb.get_selection # "none"
        on_text == ~on_sel /\ target = "file_contents"
                   /\ ex.cb.get_editor_text # "none"
        getter == IF on_sel THEN "get_selection" ELSE "get_editor_text"
        text == IF on_sel THEN st.editor.selection ELSE st.editor.text
        replace_func == IF on_sel THEN "replace_selection" ELSE "set_editor_text"
        replaced == Invoke(st, ex.cb[replace_func],
                           TextCall(replace_func, Apply_transform(text, transform)))
    IN  IF ~on_sel /\ ~on_text THEN Ret("false", st)
        ELSE IF ex.cb[getter] = "raises" THEN Raised(st, "HostError")
        ELSE IF text = <<>> THEN Ret("false", st)
        ELSE IF transform \notin Transforms
        THEN NotifyFalse(ex, st, "Transform Error", "Unknown transform", transform,
                         -1, <<>>)
        ELSE IF ex.cb[replace_func] = "none" THEN Ret("false", st)
        ELSE IF replaced.raised THEN Raised(replaced.st, "HostError")
        ELSE Ret("true", replaced.st)

\* ActionExecutor._execute_notify
Exec_notify(ex, st, action) ==
    LET n == Notify(ex, st, Get(action.config.title, "Plugin"),
                    Get(action.config.message, ""), None, -1, <<>>)
    IN  IF n.raised THEN Raised(n.st, "HostError") ELSE Ret("true", n.st)

\* str.lower() of the engine names the model uses
LowerName(name) ==
    CASE name = "Python" -> "python" [] name = "LUA" -> "lua" [] OTHER -> name

\* editor_api = EditorAPI(...): a new object, named by the next number
NewEditorAPI(st, cbs) ==
    [api |-> EditorAPI(st.objects + 1, cbs),
     st |-> [st EXCEPT !.objects = @ + 1]]

\* A mutant of the engine construction: one engine, made once and kept.
CachedEngine(kind, api) ==
    IF kind = "lua" THEN LuaEngine(1, EditorAPI(1, api.cb))
    ELSE PythonEngine(1, EditorAPI(1, api.cb))

\* engine = LuaEngine(editor_api) or PythonEngine(editor_api): a new engine
\* (named like its bridge) bound to the bridge just made
NewEngine(kind, api) ==
    IF kind = "lua" THEN LuaEngine(api.id, api) ELSE PythonEngine(api.id, api)

\* A mutant of the path resolution: the base path is not used.
Resolve_cwd(base, script_file) == Path(None, script_file)

\* self._plugin_base_path / script_file, or Path(script_file) with no base
Resolve(base, script_file) == Path(base, script_file)

\* What one script action did: the objects it made and what the engine saw.
Session(action, eng, ran, path, run) ==
    [action |-> action.id, engine |-> eng.id, api |-> eng.editor_api.id,
     kind |-> eng.kind, ran |-> ran, path |-> path, run |-> run,
     bound |-> eng.history]

\* engine.execute_file(script_path, entry_point) or
\* engine.execute_string(inline_code, entry_point)
Run_engine(engine, st, config, script_path) ==
    IF Truthy(config.file)
    THEN IF engine.kind = "lua"
         THEN Lua_execute_file(engine, st, script_path, config.entry_point)
         ELSE Py_execute_file(engine, st, script_path, config.entry_point)
    ELSE IF engine.kind = "lua"
         THEN Lua_execute_string(engine, st, config.code, config.entry_point,
                                 "execute_string")
         ELSE Py_execute_string(engine, st, config.code, config.entry_point,
                                "execute_string")

\* if not success: the engine's last error is notified
Script_result(ex, r, ran) ==
    IF r.raised THEN Raised(ran, "BaseException")
    ELSE IF ~r.ret
    THEN NotifyFalse(ex, ran, "Script Error", r.eng.last_error.msg,
                     r.eng.last_error.arg, -1, <<>>)
    ELSE Ret("true", ran)

Script_ran(ex, action, path, r) ==
    Script_result(ex, r,
        [r.st EXCEPT !.runs = Append(@, Session(action, r.eng, TRUE, path, r.run))])

\* _execute_script once the engine is made
Script_with(ex, action, config, made, engine, script_path) ==
    IF ~Truthy(config.file) /\ ~Truthy(config.code)
    THEN NotifyFalse(ex, [made.st EXCEPT !.runs = Append(@,
                             Session(action, engine, FALSE, NoPath, NoRun))],
                     "Script Error", "No script file or inline code specified",
                     None, -1, <<>>)
    ELSE Script_ran(ex, action, IF Truthy(config.file) THEN script_path ELSE NoPath,
                    Run_engine(engine, made.st, config, script_path))

\* _execute_script once the bridge is made: no engine for an unknown name,
\* or for lua without lupa
Script_for(ex, action, config, engine_type, made) ==
    IF engine_type \notin {"lua", "python"} \/ (engine_type = "lua" /\ ~ex.lupa)
    THEN NotifyFalse(ex, [made.st EXCEPT !.runs = Append(@,
                             [action |-> action.id, engine |-> 0, api |-> made.api.id,
                              kind |-> engine_type, ran |-> FALSE, path |-> NoPath,
                              run |-> NoRun, bound |-> NoHistory])],
                     "Script Error",
                     IF engine_type = "lua" THEN "Lua engine not available"
                     ELSE "Unknown script engine",
                     IF engine_type = "lua" THEN None ELSE engine_type, -1, <<>>)
    ELSE Script_with(ex, action, config, made, NewEngine(engine_type, made.api),
                     Resolve(ex.base, config.file))

\* ActionExecutor._execute_script
Exec_script(ex, st, action) ==
    Script_for(ex, action, action.config,
               LowerName(Get(action.config.engine, "lua")), NewEditorAPI(st, ex.cb))

\* One entry of the trace: execute was entered for this action; one entry
\* of the done list: execute left it, and how.
Entered(ex, action) == [id |-> action.id, type |-> action.type, base |-> ex.base]

Left(action, r) == [r EXCEPT !.st.done = Append(@, [id |-> action.id, ret |-> r.ret])]

RECURSIVE Execute(_, _, _)

\* ActionExecutor._execute_chain, from the i-th entry (0-based) on
RECURSIVE Exec_chain(_, _, _, _)

\* the loop body once self.execute(temp_action, context) is back
Chain_step(ex, action, i, r) ==
    IF r.ret = "raise" /\ r.exc = "BaseException" THEN r
    ELSE IF r.ret = "raise"
    THEN NotifyFalse(ex, r.st, "Chain Error", "Action failed", r.exc, i, <<>>)
    ELSE IF r.ret = "false" THEN Ret("false", r.st)
    ELSE Exec_chain(ex, r.st, action, i + 1)

\* A mutant of the temporary action's config: 'type' is popped from the
\* list entry itself, which then is the config.
Chain_config_pop(action_config) ==
    [config |-> [action_config EXCEPT !.type = None],
     left |-> [action_config EXCEPT !.type = None]]

\* config={k: v for k, v in action_config.items() if k != 'type'}: a new
\* dict for the temporary action; `left` is the list entry afterwards
Chain_config(action_config) ==
    [config |-> [action_config EXCEPT !.type = None], left |-> action_config]

\* temp_action = Action(id, type, config), executed; st.left records what
\* the chain's list entry is once the temporary action is made
Chain_temp(ex, st, action, i, action_type, c) ==
    Chain_step(ex, action, i,
               Execute(ex, [st EXCEPT !.left = Append(@, [action |-> action.id,
                                                           entry |-> i,
                                                           config |-> c.left])],
                       Action(Append(action.id, i), action_type, c.config)))

\* the loop body for one entry of the list
Chain_entry(ex, st, action, i, action_config) ==
    IF action_config.type \notin ActionTypes
    THEN NotifyFalse(ex, st, "Chain Error", "Action failed", "ValueError", i, <<>>)
    ELSE Chain_temp(ex, st, action, i, action_config.type, Chain_config(action_config))

Exec_chain(ex, st, action, i) ==
    IF i >= Len(action.config.actions) THEN Ret("true", st)
    ELSE Chain_entry(ex, st, action, i, action.config.actions[i + 1])

\* the dispatch of ActionExecutor.execute
Handle(ex, st, action) ==
    CASE action.type = "external_command" -> Exec_external_command(ex, st, action)
      [] action.type = "snippet" -> Exec_snippet(ex, st, action)
      [] action.type = "transform" -> Exec_transform(ex, st, action)
      [] action.type = "notify" -> Exec_notify(ex, st, action)
      [] action.type = "chain" -> Exec_chain(ex, st, action, 0)
      [] action.type = "script" -> Exec_script(ex, st, action)
      [] OTHER -> NotifyFalse(ex, st, "Plugin Error", "Unknown action type",
                              action.type, -1, <<>>)

\* ActionExecutor.execute: an exception of the handler is notified and
\* becomes False; the notifier's own exception is not caught.
Caught(ex, action, r) ==
    Left(action, IF r.ret = "raise" /\ r.exc # "BaseException"
                 THEN NotifyFalse(ex, r.st, "Plugin Error", "Action failed",
                                  r.exc, -1, <<>>)
                 ELSE r)

Execute(ex, st, action) ==
    Caught(ex, action,
           Handle(ex, [st EXCEPT !.trace = Append(@, Entered(ex, action))], action))

---------------------------------------------------------------------------
(* models.py: TriggerContext, Trigger, Plugin                              *)

\* A list element of a manifest that is not a string (a number, say).
NotAString == "<int>"

\* str.lower() of the language names the model uses
LowerLang(lang) ==
    CASE lang = "Python" -> "python" [] lang = "JavaScript" -> "javascript"
      [] OTHER -> lang

\* fnmatch.fnmatch(name, pattern) for patterns of literals, ? and *
RECURSIVE Fnmatch(_, _)
Fnmatch(name, pattern) ==
    IF Len(pattern) = 0 THEN Len(name) = 0
    ELSE IF pattern[1] = "*"
    THEN \/ Fnmatch(name, Tail(pattern))
         \/ Len(name) > 0 /\ Fnmatch(Tail(name), pattern)
    ELSE /\ Len(name) > 0
         /\ pattern[1] = "?" \/ pattern[1] = name[1]
         /\ Fnmatch(Tail(name), Tail(pattern))

\* the loop over file_patterns: "true" at the first match, "raise" at a
\* pattern that is not a string, "false" at the end
RECURSIVE AnyPattern(_, _, _)
AnyPattern(name, patterns, i) ==
    IF i > Len(patterns) THEN "false"
    ELSE IF patterns[i] = <<NotAString>> THEN "raise"
    ELSE IF Fnmatch(name, patterns[i]) THEN "true"
    ELSE AnyPattern(name, patterns, i + 1)

TriggerContext(languages, file_patterns) ==
    [languages |-> languages, file_patterns |-> file_patterns]

\* A mutant of matches: every listed criterion has to be satisfied.
Matches_all(context, language, file_path) ==
    IF NotAString \in Range(context.languages) THEN "raise"
    ELSE IF /\ context.languages # <<>> =>
                 /\ Truthy(language)
                 /\ \E i \in 1..Len(context.languages) :
                        LowerLang(context.languages[i]) = LowerLang(language)
            /\ context.file_patterns # <<>> =>
                 /\ file_path # NoPath
                 /\ AnyPattern(file_path.name, context.file_patterns, 1) = "true"
    THEN "true"
    ELSE "false"

\* A mutant of matches: a context that lists nothing matches nothing.
Matches_listed(context, language, file_path) ==
    IF NotAString \in Range(context.languages) THEN "raise"
    ELSE IF Truthy(language)
            /\ \E i \in 1..Len(context.languages) :
                   LowerLang(context.languages[i]) = LowerLang(language)
    THEN "true"
    ELSE IF context.file_patterns # <<>> /\ file_path # NoPath
    THEN AnyPattern(file_path.name, context.file_patterns, 1)
    ELSE "false"

\* TriggerContext.matches(language, file_path): "true", "false" or "raise"
Matches(context, language, file_path) ==
    LET by_pattern == AnyPattern(file_path.name, context.file_patterns, 1)
    IN  IF context.languages = <<>> /\ context.file_patterns = <<>> THEN "true"
        ELSE IF context.languages # <<>> /\ Truthy(language)
                /\ NotAString \in Range(context.languages)
        THEN "raise"
        ELSE IF context.languages # <<>> /\ Truthy(language)
                /\ LowerLang(language) \in
                     {LowerLang(context.languages[i]) : i \in 1..Len(context.languages)}
        THEN "true"
        ELSE IF context.file_patterns # <<>> /\ file_path # NoPath
        THEN by_pattern
        ELSE "false"

TriggerTypes == {"command", "shortcut", "on_save", "on_open"}

\* One trigger of a manifest: a missing key is None, a missing context is
\* the empty context.
TriggerData(id, type, action_id, context) ==
    [id |-> id, type |-> type, action_id |-> action_id, command_name |-> None,
     shortcut |-> None, context |-> context]

\* Trigger.from_dict raises for a missing id or a type outside TriggerType
TriggerOk(data) == data.id # None /\ data.type \in TriggerTypes

\* Trigger.from_dict
Trigger_from_dict(data) ==
    [id |-> data.id, type |-> data.type,
     action_id |-> Get(data.action_id, data.id),
     command_name |-> data.command_name, shortcut |-> data.shortcut,
     context |-> data.context]

\* Plugin.from_dict raises when a trigger or an action cannot be built
ManifestOk(data) ==
    /\ \A i \in 1..Len(data.triggers) : TriggerOk(data.triggers[i])
    /\ \A i \in 1..Len(data.actions) : data.actions[i].data.type \in ActionTypes

\* Plugin.from_dict(data, plugin_path)
Plugin_from_dict(data, plugin_path) ==
    [name |-> Get(data.name, "Unknown Plugin"),
     version |-> Get(data.version, "0.0.0"),
     path |-> plugin_path,
     triggers |-> [i \in 1..Len(data.triggers) |-> Trigger_from_dict(data.triggers[i])],
     actions |-> [i \in 1..Len(data.actions) |->
                     Action_from_dict(data.actions[i].id, data.actions[i].data)],
     enabled |-> TRUE, error |-> None]

\* A mutant of the error entries: they keep the default enabled = True.
ErrorPlugin_enabled(plugin_dir, error) ==
    [name |-> plugin_dir, version |-> "0.0.0", path |-> plugin_dir,
     triggers |-> <<>>, actions |-> <<>>, enabled |-> TRUE, error |-> error]

\* Plugin(name=plugin_dir.name, version="0.0.0", enabled=False, error=...)
ErrorPlugin(plugin_dir, error) ==
    [name |-> plugin_dir, version |-> "0.0.0", path |-> plugin_dir,
     triggers |-> <<>>, actions |-> <<>>, enabled |-> FALSE, error |-> error]

NoAction == Action(<<>>, None, Config0)

\* Plugin.get_action(action_id): the action, or NoAction for None
RECURSIVE FindAction(_, _, _)
FindAction(actions, action_id, i) ==
    IF i > Len(actions) THEN NoAction
    ELSE IF actions[i].id = <<action_id>> THEN actions[i]
    ELSE FindAction(actions, action_id, i + 1)

\* A mutant of get_action: the plugin's first action, whatever the id.
Get_action_first(plugin, action_id) ==
    IF plugin.actions = <<>> THEN NoAction ELSE plugin.actions[1]

Get_action(plugin, action_id) == FindAction(plugin.actions, action_id, 1)

\* [t for t in self.triggers if t.type == type]
RECURSIVE TriggersOfType(_, _, _)
TriggersOfType(triggers, type, i) ==
    IF i > Len(triggers) THEN <<>>
    ELSE IF triggers[i].type = type
    THEN <<triggers[i]>> \o TriggersOfType(triggers, type, i + 1)
    ELSE TriggersOfType(triggers, type, i + 1)

Get_on_save_triggers(plugin) == TriggersOfType(plugin.triggers, "on_save", 1)

Get_on_open_triggers(plugin) == TriggersOfType(plugin.triggers, "on_open", 1)

---------------------------------------------------------------------------
(* loader.py: PluginManager                                                *)

\* One entry of the plugins directory: a file, a directory without
\* plugin.json, or one whose plugin.json is not JSON ("badjson") or is.
DirEntry(name, is_dir, manifest, data) ==
    [name |-> name, is_dir |-> is_dir, manifest |-> manifest, data |-> data]

Manifest(name, triggers, actions) ==
    [name |-> name, version |-> "1.0", triggers |-> triggers, actions |-> actions]

NoManifest == Manifest(None, <<>>, <<>>)

NoPlugin == ErrorPlugin(None, None)

\* PluginManager._load_plugin(plugin_dir): the plugin, or NoPlugin for None
Load_plugin(entry) ==
    IF entry.manifest = "none" THEN NoPlugin
    ELSE IF entry.manifest = "badjson" THEN ErrorPlugin(entry.name, "Invalid JSON")
    ELSE IF ~ManifestOk(entry.data) THEN ErrorPlugin(entry.name, "Failed to load")
    ELSE Plugin_from_dict(entry.data, entry.name)

\* A manifest name that is a JSON list: Plugin.from_dict takes it as it
\* is, and a list is not hashable.
AList == "<list>"

\* A mutant of the registry update: a key once set keeps its plugin.
DictSet_first(dict, plugin) ==
    IF \E i \in 1..Len(dict) : dict[i].name = plugin.name THEN dict
    ELSE Append(dict, plugin)

\* self._plugins[plugin.name] = plugin: a dict keeps a key's first position
DictSet(dict, plugin) ==
    IF \E i \in 1..Len(dict) : dict[i].name = plugin.name
    THEN [i \in 1..Len(dict) |-> IF dict[i].name = plugin.name THEN plugin ELSE dict[i]]
    ELSE Append(dict, plugin)

\* How load_plugins ends: it returns, or raises, and the registry it leaves.
Loaded(raised, dict) == [raised |-> raised, dict |-> dict]

RECURSIVE LoadEntries(_, _, _)

\* if plugin: self._plugins[plugin.name] = plugin, which raises TypeError
\* for a name that is not hashable
Register(entries, i, dict, plugin) ==
    IF plugin = NoPlugin THEN LoadEntries(entries, i + 1, dict)
    ELSE IF plugin.name = AList THEN Loaded(TRUE, dict)
    ELSE LoadEntries(entries, i + 1, DictSet(dict, plugin))

\* PluginManager.load_plugins: the loop over iterdir()
LoadEntries(entries, i, dict) ==
    IF i > Len(entries) THEN Loaded(FALSE, dict)
    ELSE IF ~entries[i].is_dir THEN LoadEntries(entries, i + 1, dict)
    ELSE Register(entries, i, dict, Load_plugin(entries[i]))

\* A mutant of the clearing: load_plugins adds to what is registered.
Dict_keep(dict) == dict

\* self._plugins.clear()
Dict_clear(dict) == <<>>

\* PluginManager.load_plugins on a registry `dict`
Load_plugins(dict, disk) ==
    IF ~disk.exists THEN Loaded(FALSE, Dict_clear(dict))
    ELSE LoadEntries(disk.entries, 1, Dict_clear(dict))

\* PluginManager.get_plugin(name): the plugin, or NoPlugin for None
RECURSIVE FindPlugin(_, _, _)
FindPlugin(dict, name, i) ==
    IF i > Len(dict) THEN NoPlugin
    ELSE IF dict[i].name = name THEN dict[i]
    ELSE FindPlugin(dict, name, i + 1)

Get_plugin(dict, name) == FindPlugin(dict, name, 1)

\* PluginManager.get_enabled_plugins
RECURSIVE EnabledFrom(_, _)
EnabledFrom(dict, i) ==
    IF i > Len(dict) THEN <<>>
    ELSE IF dict[i].enabled /\ ~Truthy(dict[i].error)
    THEN <<dict[i]>> \o EnabledFrom(dict, i + 1)
    ELSE EnabledFrom(dict, i + 1)

Get_enabled_plugins(dict) == EnabledFrom(dict, 1)

\* A mutant of the trigger search: only the triggers a user invokes, a
\* command or a shortcut, are found.
RECURSIVE FindTrigger_invoked(_, _, _)
FindTrigger_invoked(triggers, trigger_id, i) ==
    IF i > Len(triggers) THEN 0
    ELSE IF triggers[i].id = trigger_id /\ triggers[i].type \in {"command", "shortcut"}
    THEN i
    ELSE FindTrigger_invoked(triggers, trigger_id, i + 1)

\* next((t for t in plugin.triggers if t.id == trigger_id), None): the
\* index of the first trigger with the id, or 0
RECURSIVE FindTrigger(_, _, _)
FindTrigger(triggers, trigger_id, i) ==
    IF i > Len(triggers) THEN 0
    ELSE IF triggers[i].id = trigger_id THEN i
    ELSE FindTrigger(triggers, trigger_id, i + 1)

\* The executor as a call sees it: its callbacks, its base path, and
\* whether lupa could be imported.
Executor(cbs, base, lupa) == [cb |-> cbs, base |-> base, lupa |-> lupa]

\* A mutant of set_plugin_base_path: a base path once set is kept.
Set_plugin_base_path_once(ex, path) ==
    IF ex.base = None THEN [ex EXCEPT !.base = path] ELSE ex

\* ActionExecutor.set_plugin_base_path
Set_plugin_base_path(ex, path) == [ex EXCEPT !.base = path]

\* One hand-over of an action to the executor: whose trigger it was, the
\* executor's base path as execute starts, and what execute did.
Segment(plugin, trigger, action, ex, st, r) ==
    [plugin |-> plugin.name, path |-> plugin.path, trigger |-> trigger.id,
     action |-> action, base |-> ex.base, ret |-> r.ret,
     trace |-> SubSeq(r.st.trace, Len(st.trace) + 1, Len(r.st.trace)),
     runs |-> SubSeq(r.st.runs, Len(st.runs) + 1, Len(r.st.runs)),
     left |-> SubSeq(r.st.left, Len(st.left) + 1, Len(r.st.left))]

\* How a manager call ends: ret is "true", "false", "none" (no return
\* value) or "raise".
Done(ret, ex, st, segments) ==
    [ret |-> ret, ex |-> ex, st |-> st, segments |-> segments]

\* PluginManager.execute_trigger
\* the executor's answer, recorded: execute_trigger returns it, the event
\* handlers drop it and go on unless execute raised
Handed(d, returns, plugin, trigger, action, ex1, r) ==
    Done(IF returns \/ r.ret = "raise" THEN r.ret ELSE "none", ex1, r.st,
         Append(d.segments, Segment(plugin, trigger, action, ex1, d.st, r)))

\* set_plugin_base_path(plugin.path) and execute(action, context)
Hand_over(d, returns, plugin, trigger, action, ex1) ==
    Handed(d, returns, plugin, trigger, action, ex1, Execute(ex1, d.st, action))

\* execute_trigger once the trigger is found (t = 0: not found)
Trigger_found(mgr, d, plugin, t, action) ==
    IF t = 0 \/ action = NoAction \/ ~mgr.executor THEN d
    ELSE Hand_over(d, TRUE, plugin, plugin.triggers[t], action,
                   Set_plugin_base_path(d.ex, plugin.path))

\* execute_trigger once the plugin is looked up
Trigger_of(mgr, d, plugin, t) ==
    Trigger_found(mgr, d, plugin, t,
                  IF t = 0 THEN NoAction
                  ELSE Get_action(plugin, plugin.triggers[t].action_id))

Plugin_trigger(mgr, d, plugin, trigger_id) ==
    IF plugin = NoPlugin \/ ~plugin.enabled \/ Truthy(plugin.error) THEN d
    ELSE Trigger_of(mgr, d, plugin, FindTrigger(plugin.triggers, trigger_id, 1))

\* PluginManager.execute_trigger
Execute_trigger(mgr, ex, st, plugin_name, trigger_id) ==
    Plugin_trigger(mgr, Done("false", ex, st, <<>>),
                   Get_plugin(mgr.plugins, plugin_name), trigger_id)

\* the inner loop of on_file_save / on_file_open: one plugin's triggers
RECURSIVE DispatchTriggers(_, _, _, _, _, _, _)
\* the loop body for one trigger: m is what trigger.context.matches gave
DispatchTrigger(mgr, d, plugin, trigger, m, action) ==
    IF m = "raise" THEN [d EXCEPT !.ret = "raise"]
    ELSE IF m = "true" /\ action # NoAction /\ mgr.executor
    THEN Hand_over(d, FALSE, plugin, trigger, action,
                   Set_plugin_base_path(d.ex, plugin.path))
    ELSE d

DispatchTriggers(mgr, d, plugin, triggers, i, language, file_path) ==
    IF i > Len(triggers) \/ d.ret = "raise" THEN d
    ELSE DispatchTriggers(mgr,
             DispatchTrigger(mgr, d, plugin, triggers[i],
                             Matches(triggers[i].context, language, file_path),
                             Get_action(plugin, triggers[i].action_id)),
             plugin, triggers, i + 1, language, file_path)

\* the outer loop: the enabled plugins in the registry's order
RECURSIVE DispatchPlugins(_, _, _, _, _, _, _)
DispatchPlugins(mgr, d, enabled, p, type, language, file_path) ==
    IF p > Len(enabled) \/ d.ret = "raise" THEN d
    ELSE DispatchPlugins(mgr,
             DispatchTriggers(mgr, d, enabled[p],
                              IF type = "on_save" THEN Get_on_save_triggers(enabled[p])
                              ELSE Get_on_open_triggers(enabled[p]),
                              1, language, file_path),
             enabled, p + 1, type, language, file_path)

\* on_file_save and on_file_open: the same loops over their trigger type
On_file_event(mgr, ex, st, type, file_path, language) ==
    DispatchPlugins(mgr, Done("none", ex, st, <<>>), Get_enabled_plugins(mgr.plugins),
                    1, type, language, file_path)

\* PluginManager.on_file_save
On_file_save(mgr, ex, st, file_path, language) ==
    On_file_event(mgr, ex, st, "on_save", file_path, language)

\* PluginManager.on_file_open
On_file_open(mgr, ex, st, file_path, language) ==
    On_file_event(mgr, ex, st, "on_open", file_path, language)

---------------------------------------------------------------------------
(* The inputs the model draws from                                         *)

\* The host editor: an open file with text and a selection, or nothing.
OpenFile ==
    [text |-> <<"a", NL, "b", NL, "a">>, selection |-> <<"a", "b">>,
     cursor |-> <<0, 0>>, file_path |-> [dir |-> <<"d">>, name |-> <<"a", ".", "b">>],
     language |-> "python"]

NoFile ==
    [text |-> <<>>, selection |-> <<>>, cursor |-> <<1, 2>>,
     file_path |-> NoPath, language |-> ""]

Editors == {OpenFile, NoFile}

AllOk == [n \in CallbackNames |-> "ok"]

\* What the host passes to set_callbacks: "none" is an argument not given.
HostProfiles == {AllOk, [NoCallbacks EXCEPT !.notify = "raises"]}

Cfg(type) == [Config0 EXCEPT !.type = type]

NotifyCfg(message) == [Cfg("notify") EXCEPT !.title = "T", !.message = message]

TransformCfg(transform, target) ==
    [Cfg("transform") EXCEPT !.transform = transform, !.target = target]

CommandCfg(command, input, output) ==
    [Cfg("external_command") EXCEPT !.command = command, !.input = input,
                                    !.output = output]

ScriptCfg(engine_type, file, code, entry_point) ==
    [Cfg("script") EXCEPT !.engine = engine_type, !.file = file, !.code = code,
                          !.entry_point = entry_point]

ChainCfg(actions) == [Cfg("chain") EXCEPT !.actions = actions]

SnippetCfg(template, variables) ==
    [Cfg("snippet") EXCEPT !.template = template, !.variables = variables]

\* The script actions the model executes.
ScriptActions ==
    {Action_from_dict("py_probe", ScriptCfg("python", None, "probe_set_x", None)),
     Action_from_dict("py_file", ScriptCfg("Python", "main.py", None, None)),
     Action_from_dict("lua_probe", ScriptCfg(None, None, "probe_set_x", None)),
     Action_from_dict("ruby", ScriptCfg("ruby", None, "set_x", None)),
     Action_from_dict("no_source", ScriptCfg("python", None, None, None)),
     Action_from_dict("two_scripts",
         ChainCfg(<<ScriptCfg("python", None, "set_x", None),
                    ScriptCfg("python", None, "probe_set_x", None)>>))}

\* The other actions the model executes.
PlainActions ==
    {Action_from_dict("note", NotifyCfg("hi")),
     Action_from_dict("upper", TransformCfg("uppercase", None)),
     Action_from_dict("unique", TransformCfg("unique_lines", "file_contents")),
     Action_from_dict("rot13", TransformCfg("rot13", "selection")),
     Action_from_dict("snip",
         SnippetCfg(<<"$", "{", "a", "}", " ", "$", "a">>,
                    <<[name |-> <<"a">>,
                       source |-> [kind |-> "file_name",
                                   text |-> <<"f", "i", "l", "e", "_", "n", "a",
                                              "m", "e">>]]>>)),
     Action_from_dict("fmt", CommandCfg("fmt", "none", "replace_selection")),
     Action_from_dict("fail", CommandCfg("fail", "selection", "insert")),
     Action_from_dict("sleep", CommandCfg("sleep", None, "replace_file_contents")),
     Action_from_dict("cat", CommandCfg("cat", "file_contents", "notify")),
     Action_from_dict("no_command", CommandCfg(None, None, None)),
     Action_from_dict("chain_ok",
         ChainCfg(<<NotifyCfg("one"), TransformCfg("uppercase", "selection")>>)),
     Action_from_dict("chain_mid",
         ChainCfg(<<NotifyCfg("one"), TransformCfg("rot13", "selection"),
                    NotifyCfg("three")>>)),
     Action_from_dict("chain_bogus",
         ChainCfg(<<NotifyCfg("one"), Cfg("bogus"), NotifyCfg("three")>>)),
     Action_from_dict("chain_nested",
         ChainCfg(<<ChainCfg(<<NotifyCfg("one"),
                               CommandCfg("fail", "none", "insert")>>),
                    NotifyCfg("three")>>)),
     Action_from_dict("chain_empty", ChainCfg(<<>>))}

Actions == ScriptActions \cup PlainActions

\* The script actions that look for a global of an earlier script.
ProbeActions == {a \in ScriptActions : a.id \in {<<"py_probe">>, <<"lua_probe">>,
                                                  <<"two_scripts">>}}

BasePaths == {None, "alpha"}

\* The calls made directly on an engine: a source and an entry point.
EngineCalls ==
    {<<c, None>> : c \in {"set_x", "use_x", "probe_set_x", "stash_builtin",
                          "use_builtin", "stash_attr", "use_attr", "edit_open",
                          "text_open", "import_os", "reach_open",
                          "raise_base", "bad_syntax"}}
    \cup {<<"defs", e>> : e \in {"main", "data", "nope", "editor", "print"}}
    \cup {<<c, "main">> : c \in {"defs_edit", "defs_open", "main_opens", "set_x"}}

\* The entry points execute_file is called with.
FileEntries == {None, "main"}

AnyContext == TriggerContext(<<>>, <<>>)

\* The plugins directory: two plugins that load, two that do not, a
\* directory without a manifest and a file.
DiskA ==
    [exists |-> TRUE,
     entries |-> <<
       DirEntry("alpha", TRUE, "ok", Manifest("alpha",
         <<TriggerData("fmt", "on_save", None, TriggerContext(<<"python">>, <<>>)),
           TriggerData("hello", "command", None, TriggerContext(<<"javascript">>, <<>>)),
           TriggerData("lost", "on_save", "missing", AnyContext),
           TriggerData("after", "on_save", "note", AnyContext),
           TriggerData("opened", "on_open", "run",
                       TriggerContext(<<>>, <<<<"*", ".", "b">>>>))>>,
         <<[id |-> "fmt", data |-> TransformCfg("uppercase", "file_contents")],
           [id |-> "hello", data |-> NotifyCfg("hello")],
           [id |-> "note", data |-> NotifyCfg("saved")],
           [id |-> "run", data |-> ScriptCfg("python", "main.py", None, None)]>>)),
       DirEntry("broken", TRUE, "badjson", NoManifest),
       DirEntry("beta", TRUE, "ok", Manifest("beta",
         <<TriggerData("sv", "on_save", None,
                       TriggerContext(<<"rust">>, <<<<"*", ".", "b">>>>)),
           TriggerData("odd", "on_save", "note", TriggerContext(<<NotAString>>, <<>>)),
           TriggerData("tail", "on_save", "note", AnyContext),
           TriggerData("op", "on_open", None, AnyContext),
           TriggerData("go", "shortcut", "sv", AnyContext)>>,
         <<[id |-> "sv", data |-> ScriptCfg("python", "main.py", None, None)],
           [id |-> "note", data |-> NotifyCfg("beta")],
           [id |-> "op", data |-> ChainCfg(<<NotifyCfg("open"),
                                  ScriptCfg("python", "main.py", None, None)>>)]>>)),
       DirEntry("bare", TRUE, "none", NoManifest),
       DirEntry("README", FALSE, "none", NoManifest),
       DirEntry("delta", TRUE, "ok", Manifest("delta",
         <<TriggerData("x", "on_click", None, AnyContext)>>, <<>>))>>]

Disks == {DiskA, [exists |-> FALSE, entries |-> <<>>]}

\* Plugin directories for the scans: two that load, one whose plugin.json
\* is not JSON, one whose manifest names an unknown trigger type, one
\* without a manifest, a file, one whose manifest declares the name
\* "broken", and one whose manifest declares a list as its name.
Hello == Manifest("x", <<TriggerData("hello", "command", None, AnyContext)>>,
                  <<[id |-> "hello", data |-> NotifyCfg("hello")]>>)

DirAlpha == DirEntry("alpha", TRUE, "ok", [Hello EXCEPT !.name = "alpha"])

DirGamma == DirEntry("gamma", TRUE, "ok", [Hello EXCEPT !.name = None])

DirBroken == DirEntry("broken", TRUE, "badjson", NoManifest)

DirDelta ==
    DirEntry("delta", TRUE, "ok",
             Manifest("delta", <<TriggerData("x", "on_click", None, AnyContext)>>, <<>>))

DirBare == DirEntry("bare", TRUE, "none", NoManifest)

FileReadme == DirEntry("README", FALSE, "none", NoManifest)

DirBeta == DirEntry("beta", TRUE, "ok", [Hello EXCEPT !.name = "broken"])

DirOmega == DirEntry("omega", TRUE, "ok", [Hello EXCEPT !.name = AList])

Dir(entries) == [exists |-> TRUE, entries |-> entries]

\* What the plugins directory may hold when it is scanned, in the order
\* iterdir() yields it.
ScanDisks ==
    {[exists |-> FALSE, entries |-> <<>>],
     Dir(<<>>),
     Dir(<<DirAlpha>>),
     Dir(<<DirAlpha, DirBroken, DirDelta, DirBare, FileReadme, DirGamma>>),
     Dir(<<DirGamma, FileReadme, DirDelta, DirBare, DirBroken, DirAlpha>>),
     Dir(<<DirBroken, DirBeta>>),
     Dir(<<DirBeta, DirAlpha, DirBroken>>),
     Dir(<<DirDelta, DirBare>>),
     Dir(<<DirAlpha, DirOmega, DirGamma>>),
     Dir(<<DirOmega, DirAlpha>>)}

\* The (plugin name, trigger id) pairs the host asks for.
TriggerCalls ==
    {<<"alpha", "fmt">>, <<"alpha", "hello">>, <<"alpha", "lost">>,
     <<"alpha", "opened">>, <<"alpha", "sv">>, <<"beta", "sv">>, <<"beta", "go">>,
     <<"beta", "odd">>,
     <<"broken", "fmt">>, <<"nobody", "fmt">>}

\* The snippet templates of up to MaxTokens pieces, the variable maps (a
\* dict, in insertion order), and the snippet actions made of them.
MaxTokens == 2

SnippetTokens ==
    {<<"$", "{", "a", "}">>, <<"$", "a">>, <<"$", "{", "b", "}">>, <<"$", "b">>,
     <<"x">>, <<"$">>}

RECURSIVE Flatten(_)
Flatten(pieces) ==
    IF Len(pieces) = 0 THEN <<>> ELSE pieces[1] \o Flatten(Tail(pieces))

Templates ==
    {Flatten(ts) : ts \in UNION {[1..n -> SnippetTokens] : n \in 0..MaxTokens}}

Var(name, kind, text) == [name |-> name, source |-> [kind |-> kind, text |-> text]]

VariableMaps ==
    {<<>>,
     <<Var(<<"a">>, "file_name", <<"f", "i", "l", "e", "_", "n", "a", "m", "e">>)>>,
     <<Var(<<"a">>, "literal", <<"1">>)>>,
     <<Var(<<"a">>, "literal", <<"1">>), Var(<<"b">>, "date", <<"d", "a", "t", "e">>)>>,
     <<Var(<<"a">>, "literal", <<"$", "b">>), Var(<<"b">>, "literal", <<"2">>)>>,
     <<Var(<<"b">>, "literal", <<"2">>), Var(<<"a">>, "literal", <<"$", "b">>)>>}

SnippetActions ==
    {Action_from_dict("snip", SnippetCfg(t, v)) : t \in Templates, v \in VariableMaps}

\* The host's cursors, 0-based, and the positions a script passes to
\* set_cursor_position: 1-based ones and values below 1.
MaxCursor == 3

HostCursors == (0..MaxCursor) \X (0..MaxCursor)

CursorArgs == (-1..(MaxCursor + 1)) \X (-1..(MaxCursor + 1))

\* The texts of up to MaxLines lines, each line one of TextLines.
MaxLines == 4

TextLines == {<<>>, <<"a">>, <<"b">>, <<"c">>, <<"a", "b">>}

Texts == {Join(lines) : lines \in UNION {[1..n -> TextLines] : n \in 1..MaxLines}}

\* The external commands that reach subprocess.run: those with a command.
CommandActions ==
    {a \in PlainActions : a.type = "external_command" /\ Truthy(a.config.command)}

\* The (plugin name, trigger id) pairs the two threads ask for: a script
\* of each plugin, a notification, and a trigger that does not exist.
ThreadCalls ==
    {<<"alpha", "opened">>, <<"beta", "go">>, <<"alpha", "hello">>,
     <<"beta", "fmt">>}

Languages == {None, "Python", "javascript"}

FilePaths == {[dir |-> <<"d">>, name |-> <<"a", ".", "b">>],
              [dir |-> <<"d">>, name |-> <<"a">>]}

\* The contexts matches is asked about: nothing listed, one criterion
\* listed, both listed, an empty language name, a pattern that matches
\* every name, and a languages list with an entry that is not a string.
Contexts ==
    {AnyContext,
     TriggerContext(<<"python">>, <<>>),
     TriggerContext(<<>>, <<<<"*", ".", "b">>>>),
     TriggerContext(<<"python">>, <<<<"*", ".", "b">>>>),
     TriggerContext(<<"JavaScript", "python">>, <<<<"a">>, <<"?", ".", "c">>>>),
     TriggerContext(<<"">>, <<>>),
     TriggerContext(<<"rust">>, <<<<"*">>>>),
     TriggerContext(<<NotAString>>, <<<<"*", ".", "b">>>>)}

\* The current language: None and "" are both no language to matches.
CurrentLanguages == {None, "", "Python", "python", "javascript"}

\* The current file: no path, or a path with a name (Path("") has the
\* name "").
CurrentPaths ==
    {NoPath,
     [dir |-> <<"d">>, name |-> <<"a", ".", "b">>],
     [dir |-> <<"d">>, name |-> <<"a">>],
     [dir |-> <<>>, name |-> <<>>]}

---------------------------------------------------------------------------
(* The state machine                                                       *)

\* No execute call has been made yet.
NoLast ==
    [action |-> NoAction, ex |-> Executor(NoCallbacks, None, FALSE), ret |-> None,
     objects0 |-> 0, calls |-> <<>>, trace |-> <<>>, done |-> <<>>, runs |-> <<>>]

\* No matches call has been made yet.
NoMatch ==
    [context |-> AnyContext, language |-> None, file_path |-> NoPath, ret |-> None]

\* No load_plugins call has been made yet.
NoLoad ==
    [scanned |-> FALSE, disk |-> [exists |-> FALSE, entries |-> <<>>],
     raised |-> FALSE, before |-> <<>>]

\* The two threads that may call execute_trigger, and a thread not in a call.
Threads == {1, 2}

NoCall ==
    [pc |-> "idle", plugin |-> None, path |-> None, action |-> NoAction,
     overtaken |-> None, ret |-> None, runs |-> <<>>]

\* No helper method has been called directly yet.
NoComputed == [fn |-> None, arg |-> <<>>, result |-> <<>>, again |-> <<>>]

\* No subprocess is running.
NoCommand == [pc |-> "idle", action |-> NoAction]

\* No PluginManager call has been made yet.
NoDispatch ==
    [op |-> None, plugin |-> None, trigger |-> None, file_path |-> NoPath,
     language |-> None, plugins |-> <<>>, executor |-> FALSE, base0 |-> None,
     ret |-> None, segments |-> <<>>, calls |-> <<>>]

\* Init: the state after the module is imported and an ActionExecutor, a
\* PluginManager and an engine of either kind have been constructed; a
\* LuaEngine exists only when lupa could be imported (lua_engine.py:41-42).
Init ==
    /\ lupa_available \in BOOLEAN
    /\ safe_builtins = {}
    /\ host_engine \in {PythonEngine(-1, EditorAPI(-1, AllOk))}
                     \cup IF lupa_available
                          THEN {LuaEngine(-2, EditorAPI(-2, AllOk))} ELSE {}
    /\ engine_run = NoRun
    /\ editor = OpenFile
    /\ callbacks = NoCallbacks
    /\ plugin_base_path = None
    /\ objects = 0
    /\ served = [i \in 1..MaxObjects |-> 0]
    /\ leaked = NoHistory
    /\ last = NoLast
    /\ plugins = <<>>
    /\ action_executor = FALSE
    /\ dispatched = NoDispatch
    /\ loaded = NoLoad
    /\ matched = NoMatch
    /\ computed = NoComputed
    /\ inflight = [t \in Threads |-> NoCall]
    /\ running = NoCommand

\* The state a call starts from, and the executor it runs on.
Now0 == St0(editor, objects, safe_builtins)

Self == Executor(callbacks, plugin_base_path, lupa_available)

\* A direct call on an engine leaves the engine, the class dict and the
\* editor as the script left them.
EngineCalled(r) ==
    /\ host_engine' = r.eng
    /\ engine_run' = r.run
    /\ safe_builtins' = r.st.safe_builtins
    /\ editor' = r.st.editor
    /\ UNCHANGED <<lupa_available, matched, computed, thread_vars, executor_vars, manager_vars>>

PyExecuteString ==
    /\ host_engine.kind = "python"
    /\ \E c \in EngineCalls :
        EngineCalled(Py_execute_string(host_engine, Now0, c[1], c[2],
                                       "execute_string"))

PyExecuteFile ==
    /\ host_engine.kind = "python"
    /\ \E f \in ScriptFiles, e \in FileEntries :
        EngineCalled(Py_execute_file(host_engine, Now0, f, e))

LuaExecuteString ==
    /\ host_engine.kind = "lua"
    /\ \E c \in EngineCalls :
        EngineCalled(Lua_execute_string(host_engine, Now0, c[1], c[2],
                                        "execute_string"))

LuaExecuteFile ==
    /\ host_engine.kind = "lua"
    /\ \E f \in ScriptFiles, e \in FileEntries :
        EngineCalled(Lua_execute_file(host_engine, Now0, f, e))

\* Bookkeeping of the objects the executor's script handler constructs:
\* how many invocations each engine has served (2 stands for "two or
\* more"), and what the scripts have bound.
Serve(count, runs) ==
    [i \in DOMAIN count |->
        LET n == count[i] + Cardinality({k \in 1..Len(runs) : runs[k].engine = i})
        IN  IF n > 2 THEN 2 ELSE n]

RECURSIVE Leak(_, _, _)
Leak(history, runs, k) ==
    IF k > Len(runs) THEN history
    ELSE Leak([globals |-> history.globals \cup runs[k].bound.globals,
               builtins |-> history.builtins \cup runs[k].bound.builtins,
               attrs |-> history.attrs \cup runs[k].bound.attrs], runs, k + 1)

\* What every call that reaches the executor leaves behind.
Executed(st) ==
    /\ st.objects <= MaxObjects
    /\ editor' = st.editor
    /\ objects' = st.objects
    /\ safe_builtins' = st.safe_builtins
    /\ served' = Serve(served, st.runs)
    /\ leaked' = Leak(leaked, st.runs, 1)

\* ActionExecutor.execute(action, context)
Returns(a, r) ==
    /\ Executed(r.st)
    /\ last' = [action |-> a, ex |-> Self, ret |-> r.ret, objects0 |-> objects,
                calls |-> r.st.calls, trace |-> r.st.trace, done |-> r.st.done,
                runs |-> r.st.runs]
    /\ UNCHANGED <<lupa_available, matched, computed, thread_vars, host_engine, engine_run,
                   callbacks, plugin_base_path, manager_vars>>

CallExecute(a) == Returns(a, Execute(Self, Now0, a))

\* Two script actions in a row, or one chain of two scripts.
ExecuteScripts == \E a \in ProbeActions : CallExecute(a)

ExecuteAction == \E a \in Actions : CallExecute(a)

ExecuteSnippet == \E a \in SnippetActions : CallExecute(a)

\* ActionExecutor.set_callbacks: an argument that is given replaces the
\* callback, one that is not given leaves it.
CallSetCallbacks ==
    \E p \in HostProfiles :
        /\ callbacks' = [n \in CallbackNames |->
                            IF p[n] # "none" THEN p[n] ELSE callbacks[n]]
        /\ callbacks' # callbacks
        /\ last' = NoLast
        /\ dispatched' = NoDispatch
        /\ UNCHANGED <<lupa_available, matched, computed, thread_vars, editor, engine_vars,
                       plugin_base_path, objects, served, leaked, plugins,
                       action_executor, loaded>>

\* ActionExecutor.set_plugin_base_path
CallSetPluginBasePath ==
    \E path \in BasePaths :
        /\ plugin_base_path' = Set_plugin_base_path(Self, path).base
        /\ plugin_base_path' # plugin_base_path
        /\ last' = NoLast
        /\ UNCHANGED <<lupa_available, matched, computed, thread_vars, editor, engine_vars,
                       callbacks, objects, served, leaked, manager_vars>>

\* The user edits, or opens or closes a file.
HostEdits ==
    /\ editor' \in Editors \ {editor}
    /\ last' = NoLast
    /\ UNCHANGED <<lupa_available, matched, computed, thread_vars, engine_vars, callbacks,
                   plugin_base_path, objects, served, leaked, manager_vars>>

\* The host's interaction loop handles its next event: the thread that
\* called execute is inside subprocess.run(...) until the process has ended
\* or 30 seconds have passed (actions.py:143-151), and handles nothing then.
HostLoopStep ==
    /\ running.pc = "idle"
    /\ \/ /\ editor' \in Editors \ {editor}
          /\ UNCHANGED callbacks
       \/ /\ \E p \in HostProfiles :
                callbacks' = [n \in CallbackNames |->
                                 IF p[n] # "none" THEN p[n] ELSE callbacks[n]]
          /\ callbacks' # callbacks
          /\ UNCHANGED editor
    /\ last' = NoLast
    /\ UNCHANGED <<lupa_available, matched, computed, thread_vars, engine_vars,
                   plugin_base_path, objects, served, leaked, manager_vars>>

\* The host's loop calls execute with an external_command action and the
\* handler comes to subprocess.run (actions.py:143).
CommandStart ==
    \E a \in CommandActions :
        /\ running.pc = "idle"
        /\ running' = [pc |-> "running", action |-> a]
        /\ UNCHANGED <<lupa_available, editor, engine_vars, executor_vars,
                       manager_vars, matched, computed, inflight>>

Delivered(a, r) ==
    /\ Executed(r.st)
    /\ last' = [action |-> a, ex |-> Self, ret |-> r.ret, objects0 |-> objects,
                calls |-> r.st.calls, trace |-> r.st.trace, done |-> r.st.done,
                runs |-> r.st.runs]
    /\ running' = NoCommand
    /\ UNCHANGED <<lupa_available, matched, computed, inflight, host_engine, engine_run,
                   callbacks, plugin_base_path, manager_vars>>

\* subprocess.run returns or times out, the handler applies or reports the
\* result, and execute returns to the host's loop (actions.py:153-177).
CommandEnd ==
    /\ running.pc = "running"
    /\ Delivered(running.action, Execute(Self, Now0, running.action))

\* What a load_plugins call leaves behind.
Scanned(disk, r) ==
    /\ plugins' = r.dict
    /\ loaded' = [scanned |-> TRUE, disk |-> disk, raised |-> r.raised,
                  before |-> [i \in 1..Len(plugins) |-> plugins[i].name]]
    /\ dispatched' = NoDispatch
    /\ UNCHANGED <<lupa_available, matched, computed, thread_vars, editor, engine_vars,
                   executor_vars, action_executor>>

\* PluginManager.load_plugins, when the scan finds something else than
\* what is registered
CallLoadPlugins ==
    \E disk \in Disks :
        /\ Scanned(disk, Load_plugins(plugins, disk))
        /\ plugins' # plugins

\* PluginManager.load_plugins, whatever the plugins directory holds
CallReload ==
    \E disk \in ScanDisks : Scanned(disk, Load_plugins(plugins, disk))

\* PluginManager.set_action_executor
CallSetActionExecutor ==
    /\ ~action_executor
    /\ action_executor' = TRUE
    /\ dispatched' = NoDispatch
    /\ UNCHANGED <<lupa_available, matched, computed, thread_vars, editor, engine_vars,
                   executor_vars, plugins, loaded>>

Manager == [plugins |-> plugins, executor |-> action_executor]

\* A plugin's actions once the chain entries are what an execution left
\* them: the executor is handed the registry's own Action objects.
RECURSIVE PutBack(_, _, _)
PutBack(actions, left, k) ==
    IF k > Len(left) THEN actions
    ELSE PutBack([a \in 1..Len(actions) |->
                     IF actions[a].id = left[k].action
                     THEN [actions[a] EXCEPT
                              !.config.actions[left[k].entry + 1] = left[k].config]
                     ELSE actions[a]],
                 left, k + 1)

\* The registry after the hand-overs of a PluginManager call.
RECURSIVE Kept(_, _, _)
Kept(dict, segments, s) ==
    IF s > Len(segments) THEN dict
    ELSE Kept([p \in 1..Len(dict) |->
                  IF dict[p].name = segments[s].plugin
                  THEN [dict[p] EXCEPT !.actions = PutBack(@, segments[s].left, 1)]
                  ELSE dict[p]],
              segments, s + 1)

\* What a PluginManager call leaves behind.
Dispatched(op, plugin, trigger, file_path, language, d) ==
    /\ Executed(d.st)
    /\ plugin_base_path' = d.ex.base
    /\ plugins' = Kept(plugins, d.segments, 1)
    /\ dispatched' = [op |-> op, plugin |-> plugin, trigger |-> trigger,
                      file_path |-> file_path, language |-> language,
                      plugins |-> plugins, executor |-> action_executor,
                      base0 |-> plugin_base_path, ret |-> d.ret,
                      segments |-> d.segments, calls |-> d.st.calls]
    /\ UNCHANGED <<lupa_available, matched, computed, thread_vars, host_engine, engine_run,
                   callbacks, last, action_executor, loaded>>

CallExecuteTrigger ==
    \E c \in TriggerCalls :
        Dispatched("execute_trigger", c[1], c[2], NoPath, None,
                   Execute_trigger(Manager, Self, Now0, c[1], c[2]))

CallOnFileSave ==
    \E f \in FilePaths, lang \in Languages :
        Dispatched("on_file_save", None, None, f, lang,
                   On_file_save(Manager, Self, Now0, f, lang))

CallOnFileOpen ==
    \E f \in FilePaths, lang \in Languages :
        Dispatched("on_file_open", None, None, f, lang,
                   On_file_open(Manager, Self, Now0, f, lang))

\* execute_trigger up to the hand-over (loader.py:141-156): the plugin and
\* the action the call goes on with, or nothing when it returns False
Lookup(mgr, plugin_name, trigger_id) ==
    LET plugin == Get_plugin(mgr.plugins, plugin_name)
        t == IF plugin = NoPlugin THEN 0
             ELSE FindTrigger(plugin.triggers, trigger_id, 1)
        action == IF t = 0 THEN NoAction
                  ELSE Get_action(plugin, plugin.triggers[t].action_id)
    IN  IF \/ plugin = NoPlugin \/ ~plugin.enabled \/ Truthy(plugin.error)
           \/ t = 0 \/ action = NoAction \/ ~mgr.executor
        THEN [found |-> FALSE, plugin |-> NoPlugin, action |-> NoAction]
        ELSE [found |-> TRUE, plugin |-> plugin, action |-> action]

\* A thread calls execute_trigger and comes to the hand-over, or returns
\* False.
Entered_trigger(t, f) ==
    /\ inflight' = [inflight EXCEPT ![t] =
                       IF f.found
                       THEN [NoCall EXCEPT !.pc = "resolved", !.plugin = f.plugin.name,
                                           !.path = f.plugin.path, !.action = f.action]
                       ELSE [NoCall EXCEPT !.pc = "done", !.ret = "false"]]
    /\ UNCHANGED <<lupa_available, editor, engine_vars, executor_vars, manager_vars,
                   matched, computed, running>>

TriggerEnter ==
    \E t \in Threads, c \in ThreadCalls :
        /\ inflight[t].pc = "idle"
        /\ Entered_trigger(t, Lookup(Manager, c[1], c[2]))

\* The thread's self._action_executor.set_plugin_base_path(plugin.path)
\* (loader.py:158); a thread that had set the path and has not yet called
\* execute is overtaken.
TriggerSetBase ==
    \E t \in Threads :
        /\ inflight[t].pc = "resolved"
        /\ plugin_base_path' = Set_plugin_base_path(Self, inflight[t].path).base
        /\ inflight' = [u \in Threads |->
                           IF u = t THEN [inflight[t] EXCEPT !.pc = "based"]
                           ELSE IF inflight[u].pc = "based"
                           THEN [inflight[u] EXCEPT !.overtaken = inflight[t].path]
                           ELSE inflight[u]]
        /\ UNCHANGED <<lupa_available, editor, engine_vars, callbacks, objects,
                       served, leaked, last, manager_vars, matched, computed, running>>

Executed_trigger(t, r) ==
    /\ Executed(r.st)
    /\ inflight' = [inflight EXCEPT ![t].pc = "done", ![t].ret = r.ret,
                                    ![t].runs = r.st.runs]
    /\ UNCHANGED <<lupa_available, host_engine, engine_run, callbacks,
                   plugin_base_path, last, manager_vars, matched, computed, running>>

\* The thread's self._action_executor.execute(action, context)
\* (loader.py:159), on the executor as it is then
TriggerExecute ==
    \E t \in Threads :
        /\ inflight[t].pc = "based"
        /\ Executed_trigger(t, Execute(Self, Now0, inflight[t].action))

\* execute_trigger returns to the thread's caller.
TriggerReturn ==
    \E t \in Threads :
        /\ inflight[t].pc = "done"
        /\ inflight' = [inflight EXCEPT ![t] = NoCall]
        /\ UNCHANGED <<lupa_available, editor, engine_vars, executor_vars,
                       manager_vars, matched, computed, running>>

\* A script of either kind reads the cursor, sets it to (line, column), and
\* sets it to what it has read; the host's cursor is at `host` each time.
Cursored(kind, host, args, api, st) ==
    /\ computed' =
          [fn |-> "cursor", kind |-> kind, host |-> host, args |-> args,
           got |-> Script_get_cursor(kind, api, st).value,
           set |-> Script_set_cursor(kind, api, st, args[1], args[2]).st.editor.cursor,
           back |-> Script_set_cursor(kind, api, st,
                                      Script_get_cursor(kind, api, st).value[1],
                                      Script_get_cursor(kind, api, st).value[2])
                      .st.editor.cursor]
    /\ UNCHANGED <<lupa_available, editor, engine_vars, executor_vars, manager_vars,
                   matched, thread_vars>>

CallCursor ==
    \E kind \in {"python", "lua"}, host \in HostCursors, args \in CursorArgs :
        /\ computed = NoComputed
        /\ kind = "lua" => lupa_available
        /\ Cursored(kind, host, args, EditorAPI(0, AllOk),
                    St0([OpenFile EXCEPT !.cursor = host], 0, {}))

Transformed(transform, text, result) ==
    /\ computed' = [fn |-> transform, arg |-> text, result |-> result,
                    again |-> Apply_transform(result, transform)]
    /\ UNCHANGED <<lupa_available, editor, engine_vars, executor_vars, manager_vars,
                   matched, thread_vars>>

\* ActionExecutor._apply_transform(text, 'unique_lines') on a non-empty
\* text, and once more on its result. The helper keeps no state: a
\* behaviour calls it once.
CallApplyTransform ==
    \E text \in Texts :
        /\ computed = NoComputed
        /\ text # <<>>
        /\ Transformed("unique_lines", text, Apply_transform(text, "unique_lines"))

\* TriggerContext.matches(language, file_path), asked directly
CallMatches ==
    \E c \in Contexts, lang \in CurrentLanguages, f \in CurrentPaths :
        /\ matched' = [context |-> c, language |-> lang, file_path |-> f,
                       ret |-> Matches(c, lang, f)]
        /\ UNCHANGED <<lupa_available, editor, engine_vars, executor_vars,
                       manager_vars, computed, thread_vars>>

\* The engines driven directly, and script actions run by an executor
\* whose callbacks are not set.
NextEngine ==
    \/ PyExecuteString
    \/ PyExecuteFile
    \/ LuaExecuteString
    \/ LuaExecuteFile
    \/ ExecuteScripts

SpecEngine == Init /\ [][NextEngine]_vars

\* The executor driven by its host.
NextExec ==
    \/ CallSetCallbacks
    \/ CallSetPluginBasePath
    \/ HostEdits
    \/ ExecuteAction

SpecExec == Init /\ [][NextExec]_vars

\* The manager driven by its host.
NextMgr ==
    \/ CallLoadPlugins
    \/ CallSetActionExecutor
    \/ CallSetCallbacks
    \/ CallExecuteTrigger
    \/ CallOnFileSave
    \/ CallOnFileOpen

SpecMgr == Init /\ [][NextMgr]_vars

\* The executor running snippets for its host.
NextSnippet ==
    \/ CallSetCallbacks
    \/ HostEdits
    \/ ExecuteSnippet

SpecSnippet == Init /\ [][NextSnippet]_vars

\* The bridge's cursor methods on the cursors of the model.
NextCursor == CallCursor

SpecCursor == Init /\ [][NextCursor]_vars

\* _apply_transform on the texts of the model.
NextTransform == CallApplyTransform

SpecTransform == Init /\ [][NextTransform]_vars

\* The host's loop and the external commands it starts.
NextHost ==
    \/ HostLoopStep
    \/ CommandStart
    \/ CommandEnd

SpecHost == Init /\ [][NextHost]_vars

\* Two threads calling execute_trigger on one manager and one executor.
NextThreads ==
    \/ CallLoadPlugins
    \/ CallSetActionExecutor
    \/ TriggerEnter
    \/ TriggerSetBase
    \/ TriggerExecute
    \/ TriggerReturn

SpecThreads == Init /\ [][NextThreads]_vars

\* The registry rebuilt from whatever the plugins directory holds.
NextLoad == CallReload

SpecLoad == Init /\ [][NextLoad]_vars

\* The trigger contexts asked directly.
NextModels == CallMatches

SpecModels == Init /\ [][NextModels]_vars

---------------------------------------------------------------------------
(* Properties of the engines                                               *)

\* The reads the latest direct engine call made, and those of the scripts
\* the executor's latest call ran.
EngineReads == {engine_run.reads[i] : i \in 1..Len(engine_run.reads)}

ScriptReads ==
    UNION {Range(last.runs[k].run.reads) : k \in 1..Len(last.runs)}

\* C1: cross-call isolation of globals.  On either engine, in two calls on
\* one engine or in two script actions run by the executor, a global that a
\* script reads without having assigned it itself is undefined, whatever
\* earlier scripts assigned.
C1_GlobalsIsolated ==
    \A r \in EngineReads \cup ScriptReads :
        r.kind = "global" /\ ~r.own => ~r.defined

\* C1 happens: a Lua engine runs the same source a second time and the
\* global the first run assigned is undefined, and a chain of two script
\* actions has run whose second script does not see the first one's global.
C1_SecondRunSeesNothing ==
    /\ engine_run.kind = "lua"
    /\ engine_run.code = "probe_set_x"
    /\ "x" \in engine_run.prior.globals
    /\ engine_run.reads[1] = Read("global", "x", FALSE, FALSE)
    /\ Len(last.runs) = 2
    /\ "x" \in last.runs[1].bound.globals
    /\ last.runs[2].run.reads[1] = Read("global", "x", FALSE, FALSE)

\* C3: no object persists between two calls on the same engine.  Whatever a
\* script reads without having bound it itself (a global, an entry of the
\* built-ins, an attribute of the editor bridge) is as a new interpreter
\* state has it: not there.
C3_NothingPersists ==
    \A r \in EngineReads : ~r.own => ~r.defined

---------------------------------------------------------------------------
(* Properties of the executor                                              *)

\* The script invocations of the executor's latest call that got an engine.
Engined == {k \in 1..Len(last.runs) : last.runs[k].engine # 0}

\* The engine kinds the script handler knows.
EngineKinds == {"lua", "python"}

SubId(i) == Append(last.action.id, i)

SubEntered(i) == \E k \in 1..Len(last.trace) : last.trace[k].id = SubId(i)

SubOk(i) == \E k \in 1..Len(last.done) : last.done[k] = [id |-> SubId(i), ret |-> "true"]

SubCount == Len(last.action.config.actions)

FirstFailed ==
    IF \E i \in 0..(SubCount - 1) : ~SubOk(i)
    THEN CHOOSE i \in 0..(SubCount - 1) :
             ~SubOk(i) /\ \A j \in 0..(i - 1) : SubOk(j)
    ELSE -1

\* C4: a chain runs its sub-actions in list order; when the sub-action at
\* index i is the first that fails, none after i is executed and the chain
\* returns false; it returns true only if every sub-action ran and succeeded.
C4_ChainShortCircuit ==
    last.action.type = "chain" =>
        /\ \A i, j \in 0..(SubCount - 1) :
             i < j /\ SubEntered(j) => SubOk(i)
        /\ FirstFailed # -1 => last.ret = "false"
        /\ last.ret = "true" => \A i \in 0..(SubCount - 1) : SubEntered(i) /\ SubOk(i)

\* C5: when a chain fails at index i, a notification names index i.
C5_ChainFailureNamesIndex ==
    last.action.type = "chain" /\ FirstFailed # -1 =>
        \E k \in 1..Len(last.calls) :
            /\ last.calls[k].cb \in {"notify", "print"}
            /\ last.calls[k].title = "Chain Error"
            /\ last.calls[k].idx = FirstFailed

\* C6: execute never lets a failure escape: it returns, and when a handler
\* or a host callback raised it returns false and has notified.
C6_ExecuteNeverRaises ==
    /\ last.ret # "raise"
    /\ (\E k \in 1..Len(last.calls) : last.calls[k].msg = "Action failed")
         => last.ret = "false"

---------------------------------------------------------------------------
(* Properties of the manager                                               *)

\* The registry the latest manager call ran on, and in it: the plugins that
\* are enabled and have no error, the plugin the call named, the first
\* trigger with the id it named, and the action that trigger refers to.
Registry == dispatched.plugins

Usable == {p \in 1..Len(Registry) : Registry[p].enabled /\ Registry[p].error = None}

Named == {p \in Usable : Registry[p].name = dispatched.plugin}

TriggersNamed(p) ==
    {t \in 1..Len(Registry[p].triggers) : Registry[p].triggers[t].id = dispatched.trigger}

FirstNamed(p) == CHOOSE t \in TriggersNamed(p) : \A u \in TriggersNamed(p) : t <= u

ActionsOf(p, t) ==
    {a \in Range(Registry[p].actions) : a.id = <<Registry[p].triggers[t].action_id>>}

Resolved == \E p \in Named : TriggersNamed(p) # {} /\ ActionsOf(p, FirstNamed(p)) # {}

\* The call handed exactly the resolved action of the named plugin to the
\* executor, and ended as execute ended.
HandedOver ==
    /\ Len(dispatched.segments) = 1
    /\ dispatched.segments[1].plugin = dispatched.plugin
    /\ dispatched.segments[1].trigger = dispatched.trigger
    /\ \E p \in Named : dispatched.segments[1].action \in ActionsOf(p, FirstNamed(p))
    /\ dispatched.segments[1].trace # <<>>
    /\ dispatched.segments[1].trace[1].id = dispatched.segments[1].action.id
    /\ dispatched.ret = dispatched.segments[1].ret

NothingDone ==
    /\ dispatched.ret = "false"
    /\ dispatched.segments = <<>>
    /\ dispatched.calls = <<>>

OwnerPath(s) == {Registry[p].path : p \in {q \in Usable : Registry[q].name = s.plugin}}

\* C8: whenever the manager hands an action to the executor, the base path
\* is the owning plugin's directory when execute starts and while it runs,
\* and every script file (also of a script inside a chain) is resolved
\* against that directory.
C8_BasePathIsOwners ==
    \A k \in 1..Len(dispatched.segments) :
        LET s == dispatched.segments[k]
        IN  /\ OwnerPath(s) = {s.base}
            /\ \A e \in Range(s.trace) : e.base = s.base
            /\ \A r \in Range(s.runs) :
                 r.path # NoPath => r.path.dir = s.base /\ r.path.name # None

\* C8 happens: one dispatch runs script files of two plugins, the second
\* inside a chain, while the base path was another one before the call.
C8_TwoOwners ==
    /\ Len(dispatched.segments) = 2
    /\ dispatched.base0 = None
    /\ dispatched.segments[1].path = "alpha"
    /\ dispatched.segments[1].runs # <<>>
    /\ dispatched.segments[1].runs[1].path = Path("alpha", "main.py")
    /\ dispatched.segments[2].path = "beta"
    /\ dispatched.segments[2].action.type = "chain"
    /\ dispatched.segments[2].runs # <<>>
    /\ dispatched.segments[2].runs[1].path = Path("beta", "main.py")

\* The triggers a dispatch is to execute: those of the event's kind, of a
\* usable plugin, whose context matches and whose action exists; by plugin
\* and trigger position.
EventType == IF dispatched.op = "on_file_save" THEN "on_save" ELSE "on_open"

IsDispatch == dispatched.op \in {"on_file_save", "on_file_open"}

Selected ==
    {<<p, t>> \in Usable \X (1..5) :
        /\ t <= Len(Registry[p].triggers)
        /\ Registry[p].triggers[t].type = EventType
        /\ Matches(Registry[p].triggers[t].context, dispatched.language,
                   dispatched.file_path) = "true"
        /\ ActionsOf(p, t) # {}}

SegmentAt(k, pt) ==
    /\ dispatched.segments[k].plugin = Registry[pt[1]].name
    /\ dispatched.segments[k].trigger = Registry[pt[1]].triggers[pt[2]].id

Before(a, b) == a[1] < b[1] \/ (a[1] = b[1] /\ a[2] < b[2])

\* C9: a dispatch executes exactly the selected triggers, each once, in
\* plugin order and within a plugin in declaration order.
C9_DispatchSelectionAndOrder ==
    IsDispatch /\ dispatched.executor =>
        /\ \A pt \in Selected :
             Cardinality({k \in 1..Len(dispatched.segments) : SegmentAt(k, pt)}) = 1
        /\ \A k \in 1..Len(dispatched.segments) : \E pt \in Selected : SegmentAt(k, pt)
        /\ \A k, l \in 1..Len(dispatched.segments) : \A a, b \in Selected :
             k < l /\ SegmentAt(k, a) /\ SegmentAt(l, b) => Before(a, b)

\* The triggers of the event's kind that fail: the action did not return
\* true, the action reference is dangling, or the context cannot be evaluated.
Failing ==
    {<<p, t>> \in Usable \X (1..5) :
        /\ t <= Len(Registry[p].triggers)
        /\ Registry[p].triggers[t].type = EventType
        /\ LET m == Matches(Registry[p].triggers[t].context, dispatched.language,
                            dispatched.file_path)
           IN  \/ m = "raise"
               \/ m = "true" /\ ActionsOf(p, t) = {}
               \/ \E k \in 1..Len(dispatched.segments) :
                    SegmentAt(k, <<p, t>>) /\ dispatched.segments[k].ret # "true"}

\* C10: when a trigger fails during a dispatch, every later matching
\* trigger is still executed, and the dispatcher does not raise.
C10_DispatchFailureIsolation ==
    IsDispatch /\ dispatched.executor =>
        /\ dispatched.ret # "raise"
        /\ \A f \in Failing : \A pt \in Selected :
             Before(f, pt) => \E k \in 1..Len(dispatched.segments) : SegmentAt(k, pt)

---------------------------------------------------------------------------
(* TriggerContext.matches                                                  *)

\* The context lists at least one language or pattern.
Listed(context) == context.languages # <<>> \/ context.file_patterns # <<>>

\* Every listed language and pattern is a string.
Strings(context) ==
    /\ NotAString \notin Range(context.languages)
    /\ <<NotAString>> \notin Range(context.file_patterns)

\* There is a current language and it is a listed one, ignoring case.
LanguageListed(context, language) ==
    /\ language \notin {None, ""}
    /\ \E i \in 1..Len(context.languages) :
          LowerLang(context.languages[i]) = LowerLang(language)

\* There is a current file and its name matches a listed glob.
NameListed(context, file_path) ==
    /\ file_path # NoPath
    /\ \E j \in 1..Len(context.file_patterns) :
          Fnmatch(file_path.name, context.file_patterns[j])

\* C11: for a context that lists at least one language or pattern (all of
\* them strings), matches returns true exactly when the current language
\* is a listed one ignoring case or the current file name matches a listed
\* glob, and false otherwise; an absent language (None or "") and an
\* absent path satisfy no criterion.
C11_MatchOnAny ==
    (matched.ret # None /\ Listed(matched.context) /\ Strings(matched.context))
    => /\ matched.ret \in {"true", "false"}
       /\ matched.ret = "true" <=>
              \/ LanguageListed(matched.context, matched.language)
              \/ NameListed(matched.context, matched.file_path)

\* Both criteria are listed, the language one fails, the glob one holds:
\* the context matches.
C11_OneCriterionSuffices ==
    /\ matched.ret = "true"
    /\ matched.context.languages # <<>> /\ matched.context.file_patterns # <<>>
    /\ matched.language = "javascript"
    /\ ~LanguageListed(matched.context, matched.language)
    /\ NameListed(matched.context, matched.file_path)

\* C12: a context that lists no language and no pattern matches every
\* (language, path) pair, an absent language and an absent path included.
C12_EmptyContextMatchesAll ==
    (matched.ret # None /\ ~Listed(matched.context)) => matched.ret = "true"

\* The empty context was asked with no language and no path, and matched.
C12_EmptyMatchesNothingCurrent ==
    /\ matched.ret = "true"
    /\ ~Listed(matched.context)
    /\ matched.language = None
    /\ matched.file_path = NoPath

---------------------------------------------------------------------------
(* PluginManager.load_plugins                                              *)

\* The latest scan: the entries of the plugins directory, in scan order,
\* and the subdirectories among them.
Scan == loaded.disk.entries

Dirs == {i \in 1..Len(Scan) : Scan[i].is_dir}

\* The manifest of a subdirectory fails to parse or to build a Plugin; it
\* is valid.
Fails(e) == e.manifest = "badjson" \/ (e.manifest = "ok" /\ ~ManifestOk(e.data))

Valid(e) == e.manifest = "ok" /\ ManifestOk(e.data)

\* The registry key of a subdirectory that has a manifest.
KeyOf(e) == IF Fails(e) THEN e.name ELSE Get(e.data.name, "Unknown Plugin")

\* No two subdirectories of the scan map to the same registry key.
NoCollision ==
    \A i, j \in Dirs :
        (i # j /\ Scan[i].manifest # "none" /\ Scan[j].manifest # "none")
        => KeyOf(Scan[i]) # KeyOf(Scan[j])

\* What the claim of C13 asks of a load.
Contained ==
    /\ ~loaded.raised
    /\ \A i \in Dirs :
         /\ Fails(Scan[i]) =>
               \E k \in 1..Len(plugins) :
                   /\ plugins[k].name = Scan[i].name
                   /\ plugins[k].version = "0.0.0"
                   /\ ~plugins[k].enabled
                   /\ Truthy(plugins[k].error)
         /\ Valid(Scan[i]) =>
               \E k \in 1..Len(plugins) :
                   /\ plugins[k].path = Scan[i].name
                   /\ plugins[k].enabled
                   /\ plugins[k].error = None
         /\ Scan[i].manifest = "none" =>
               \A k \in 1..Len(plugins) : plugins[k].path # Scan[i].name

\* C13: after a load whose subdirectories map to different registry keys,
\* load has not failed, every subdirectory whose manifest fails to parse or
\* to build a Plugin has an entry keyed by the directory name with version
\* "0.0.0", enabled = false and a non-empty error, every subdirectory with
\* a valid manifest is loaded as an enabled plugin, whatever the scan
\* order, and a subdirectory without a manifest has no entry.
C13_BrokenManifestContained == (loaded.scanned /\ NoCollision) => Contained

\* C14: after any sequence of loads the registry holds only plugins the
\* most recent scan discovered, all of them when the load returned, and a
\* plugin of an earlier load that the scan did not discover is no longer
\* retrievable.
C14_LoadReplaces ==
    loaded.scanned =>
        /\ \A k \in 1..Len(plugins) :
              \E i \in Dirs : plugins[k] = Load_plugin(Scan[i])
        /\ ~loaded.raised =>
              \A i \in Dirs :
                  Load_plugin(Scan[i]) # NoPlugin =>
                      \E k \in 1..Len(plugins) :
                          plugins[k].name = Load_plugin(Scan[i]).name
        /\ \A n \in Range(loaded.before) :
              (\A i \in Dirs : Load_plugin(Scan[i]).name # n)
              => Get_plugin(plugins, n) = NoPlugin

\* A plugin registered before the latest load is gone, and the registry
\* holds what the scan found.
C14_EarlierPluginGone ==
    /\ loaded.scanned
    /\ ~loaded.raised
    /\ plugins # <<>>
    /\ \E n \in Range(loaded.before) : Get_plugin(plugins, n) = NoPlugin

\* The subdirectories the scan came to: those before the first one whose
\* plugin has a name that cannot be a key.
Reached(i) ==
    /\ i \in Dirs
    /\ \A j \in Dirs : j <= i => Load_plugin(Scan[j]).name # AList

\* The subdirectories the scan came to that map to the key.
Keyed(key) ==
    {j \in Dirs : /\ Reached(j)
                  /\ Load_plugin(Scan[j]) # NoPlugin
                  /\ Load_plugin(Scan[j]).name = key}

\* C16: for every registry key that subdirectories of one load map to, the
\* registry ends with exactly one entry under the key, the plugin of the
\* subdirectory discovered last; an earlier one is overwritten and load
\* does not fail because of it.
C16_LastWriteWins ==
    \A i \in Dirs :
        Keyed(Load_plugin(Scan[i]).name) # {} =>
            /\ Cardinality({k \in 1..Len(plugins) :
                               plugins[k].name = Load_plugin(Scan[i]).name}) = 1
            /\ \E j \in Keyed(Load_plugin(Scan[i]).name) :
                  /\ \A h \in Keyed(Load_plugin(Scan[i]).name) : h <= j
                  /\ Get_plugin(plugins, Load_plugin(Scan[i]).name)
                       = Load_plugin(Scan[j])

\* An error entry keyed by its directory name was discovered first, a
\* valid plugin that declares the same name later, and the registry holds
\* the valid plugin.
C16_ValidOverwritesError ==
    /\ ~loaded.raised
    /\ \E i, j \in Dirs :
          /\ i < j
          /\ Fails(Scan[i]) /\ Valid(Scan[j])
          /\ Scan[j].data.name = Scan[i].name
          /\ Get_plugin(plugins, Scan[i].name) = Load_plugin(Scan[j])
          /\ Get_plugin(plugins, Scan[i].name).enabled

\* The registry entries get_enabled_plugins returns.
Eligible == Range(Get_enabled_plugins(plugins))

\* C28: after any sequence of loads, every plugin of the registry is
\* enabled exactly when its error is unset, and the plugins eligible for
\* dispatch (enabled and without error) are exactly the registry's plugins
\* that were built from a manifest that parsed: each is the plugin of a
\* subdirectory of the latest scan whose manifest is valid, and every
\* other entry is the error entry of a subdirectory whose manifest fails.
C28_EnabledIffNoError ==
    \A k \in 1..Len(plugins) :
        /\ plugins[k].enabled <=> plugins[k].error = None
        /\ plugins[k] \in Eligible <=>
              \E i \in Dirs : Valid(Scan[i]) /\ plugins[k] = Load_plugin(Scan[i])
        /\ plugins[k] \notin Eligible <=>
              \E i \in Dirs : Fails(Scan[i]) /\ plugins[k] = Load_plugin(Scan[i])

\* A second load has left an error entry, not eligible, next to a plugin
\* whose manifest parsed, eligible.
C28_ErrorEntryNextToValid ==
    /\ loaded.scanned /\ loaded.before # <<>>
    /\ \E k \in 1..Len(plugins) : ~plugins[k].enabled /\ plugins[k].error # None
    /\ \E k \in 1..Len(plugins) : plugins[k].enabled /\ plugins[k] \in Eligible
    /\ Cardinality(Eligible) < Len(plugins)

---------------------------------------------------------------------------
(* The registry between loads                                              *)

\* C15: a step in which the PluginManager dispatched (execute_trigger,
\* on_file_save, on_file_open, with whatever the executor ran for them,
\* chains and their temporary actions included) leaves the registry as it
\* was: the same plugins with the same enabled flag, error, triggers,
\* actions and action configuration.
C15_RegistryReadOnly ==
    [][(dispatched'.op # None /\ dispatched' # dispatched) => plugins' = plugins]_vars

\* A dispatch ran a chain of a registered plugin, temporary actions
\* included, and the registry is what it was when the call was made.
C15_ChainRanRegistryKept ==
    /\ dispatched.op = "on_file_open"
    /\ \E k \in 1..Len(dispatched.segments) :
          /\ dispatched.segments[k].action.type = "chain"
          /\ \E e \in 1..Len(dispatched.segments[k].trace) :
                Len(dispatched.segments[k].trace[e].id) = 2
    /\ plugins = dispatched.plugins

---------------------------------------------------------------------------
(* Two execute_trigger calls on one executor                               *)

\* The script files a thread's call resolved.
FilesOf(t) == {r \in Range(inflight[t].runs) : r.path # NoPath}

\* C17: the executor holds one base path and no call is guarded; a script
\* file is resolved against the directory of the plugin whose call set the
\* base path last: its own plugin's, unless another call set the path
\* between this call's set_plugin_base_path and its execute, and then that
\* other plugin's.
C17_ResolvesAgainstLastSetBase ==
    \A t \in Threads :
        inflight[t].pc = "done" =>
            \A r \in FilesOf(t) :
                r.path.dir = IF inflight[t].overtaken # None
                             THEN inflight[t].overtaken ELSE inflight[t].path

\* Interleaved calls for two plugins: the script action of one plugin has
\* resolved its file against the other plugin's directory.
C17_ScriptInOtherPluginsDirectory ==
    \E t, u \in Threads :
        /\ t # u
        /\ inflight[t].pc = "done"
        /\ inflight[t].action.type = "script"
        /\ inflight[u].pc \in {"based", "done"}
        /\ inflight[u].path # inflight[t].path
        /\ \E r \in FilesOf(t) : r.path.dir = inflight[u].path

---------------------------------------------------------------------------
(* External commands and the host's loop                                   *)

\* C18: while the subprocess of an external_command action is running, the
\* host's interaction loop can take a further step before the handler's
\* result is delivered.
C18_HostNotBlocked == running.pc = "running" => ENABLED HostLoopStep

\* The external command the latest execute call ran, what the shell made of
\* it, and the callback calls of that execute that write to the editor.
RanCommand == last.action.type = "external_command" /\ Truthy(last.action.config.command)

CommandFailed ==
    LET result == Shell(last.action.config.command, <<>>)
    IN  result.kind = "timeout" \/ (result.kind = "exit" /\ result.rc # 0)

EditorWrites ==
    {k \in 1..Len(last.calls) :
        last.calls[k].cb \in {"set_editor_text", "replace_selection", "insert_text"}}

\* C19: an external command that exits with a non-zero status or runs into
\* the timeout makes the handler return false and emit a failure
\* notification, and nothing is written to the editor, whatever the output
\* mode; output is written only after a zero exit status.
C19_FailedCommandLeavesEditor ==
    RanCommand =>
        /\ CommandFailed =>
              /\ last.ret = "false"
              /\ \E k \in 1..Len(last.calls) :
                     last.calls[k].title \in {"Command Failed", "Command Timeout"}
              /\ EditorWrites = {}
        /\ EditorWrites # {} => ~CommandFailed

---------------------------------------------------------------------------
(* Transforms that fail                                                    *)

\* The text a transform reads from the editor ed, when its target and the
\* host's callbacks let it read one.
TargetText(l, ed) ==
    LET target == Get(l.action.config.target, "selection")
    IN  IF target = "selection" /\ l.ex.cb.get_selection # "none"
        THEN [read |-> TRUE, text |-> ed.selection]
        ELSE IF target = "file_contents" /\ l.ex.cb.get_editor_text # "none"
        THEN [read |-> TRUE, text |-> ed.text]
        ELSE [read |-> FALSE, text |-> <<>>]

UnknownTransform(l) == Get(l.action.config.transform, "") \notin Transforms

EmptyTarget(l, ed) == TargetText(l, ed).read /\ TargetText(l, ed).text = <<>>

FailedClean(l, before, after) ==
    /\ l.ret = "false"
    /\ \A k \in 1..Len(l.calls) :
          l.calls[k].cb \notin {"set_editor_text", "replace_selection", "insert_text"}
    /\ after.text = before.text
    /\ after.selection = before.selection

NamesTransform(l) ==
    \E k \in 1..Len(l.calls) :
        /\ l.calls[k].title = "Transform Error"
        /\ l.calls[k].detail = Get(l.action.config.transform, "")

\* C20: a transform whose target text is empty, or whose operation is not
\* one of the eight known ones, returns false and writes neither the buffer
\* nor the selection; for an unknown operation a notification names the bad
\* value.
C20_FailedTransformNoEffect ==
    [][(last' # last /\ last'.action.type = "transform"
          /\ (EmptyTarget(last', editor) \/ UnknownTransform(last')))
       => /\ FailedClean(last', editor, editor')
          /\ UnknownTransform(last') => NamesTransform(last')]_vars

---------------------------------------------------------------------------
(* Pure helpers                                                            *)

\* The position of the first occurrence of a line among lines.
FirstAt(lines, line) == CHOOSE i \in 1..Len(lines) :
    lines[i] = line /\ \A j \in 1..(i - 1) : lines[j] # line

\* C21: unique_lines of a non-empty text is the distinct lines of the text,
\* each once, in the order of their first occurrence, and unique_lines of
\* the result is the result.
C21_UniqueLines ==
    computed.fn = "unique_lines" =>
        LET lines == Split(computed.arg)
            unique == Split(computed.result)
        IN  /\ Range(unique) = Range(lines)
            /\ \A i, j \in 1..Len(unique) : i < j =>
                  /\ unique[i] # unique[j]
                  /\ FirstAt(lines, unique[i]) < FirstAt(lines, unique[j])
            /\ computed.again = computed.result

\* unique_lines of "a\nb\na\nc" has given "a\nb\nc".
C21_SpecExample ==
    /\ computed.fn = "unique_lines"
    /\ computed.arg = <<"a", NL, "b", NL, "a", NL, "c">>
    /\ computed.result = <<"a", NL, "b", NL, "c">>

\* The values the latest snippet's variables resolved to (the handler does
\* not change the editor's file), and the template with the ${name} and
\* $name occurrences of the declared names replaced, each by its value.
Value(k) ==
    VarValue(last.ex, [editor |-> editor], last.action.config.variables[k].source).value

Braced(name) == <<"$", "{">> \o name \o <<"}">>

Bare(name) == <<"$">> \o name

RECURSIVE Expanded(_, _, _)
Expanded(template, variables, i) ==
    IF i > Len(template) THEN <<>>
    ELSE IF \E k \in 1..Len(variables) : StartsWith(template, i, Braced(variables[k].name))
    THEN LET k == CHOOSE k \in 1..Len(variables) :
                      StartsWith(template, i, Braced(variables[k].name))
         IN  Value(k) \o Expanded(template, variables, i + Len(Braced(variables[k].name)))
    ELSE IF \E k \in 1..Len(variables) : StartsWith(template, i, Bare(variables[k].name))
    THEN LET k == CHOOSE k \in 1..Len(variables) :
                      StartsWith(template, i, Bare(variables[k].name))
         IN  Value(k) \o Expanded(template, variables, i + Len(Bare(variables[k].name)))
    ELSE <<template[i]>> \o Expanded(template, variables, i + 1)

InsertedTexts ==
    {last.calls[k].text : k \in {k \in 1..Len(last.calls) : last.calls[k].cb = "insert_text"}}

\* C22: the text a snippet inserts is its template with every ${name} and
\* every bare $name of each declared variable replaced by that variable's
\* value, and nothing else changed.
C22_SnippetSubstitution ==
    (last.action.type = "snippet" /\ last.ret = "true") =>
        InsertedTexts =
            {Expanded(last.action.config.template, last.action.config.variables, 1)}

---------------------------------------------------------------------------
(* Properties of the engines' calls                                        *)

\* The script the latest engine call ran, if it ran one; whether its body
\* is made of statements that cannot fail; the last top-level statement
\* that binds a name (0: none); the bridge calls of its top level.
RanScript == engine_run.op # None /\ engine_run.code # None

RunBody == ScriptSource(engine_run.code).body

PlainBody ==
    /\ ScriptSource(engine_run.code).syntax_ok
    /\ \A i \in 1..Len(RunBody) :
          RunBody[i].op \in {"set_global", "def_func", "insert_text", "set_text"}

Binds(i, name) ==
    RunBody[i].op \in {"set_global", "def_func"} /\ RunBody[i].name = name

BoundAt(name) ==
    IF \E i \in 1..Len(RunBody) : Binds(i, name)
    THEN CHOOSE i \in 1..Len(RunBody) :
             Binds(i, name) /\ \A j \in (i + 1)..Len(RunBody) : ~Binds(j, name)
    ELSE 0

Edits(stmts) == {i \in 1..Len(stmts) : stmts[i].op \in {"insert_text", "set_text"}}

\* The bridge calls the engine call made, as (statement, text) pairs.
MadeCalls ==
    [k \in 1..Len(engine_run.calls) |->
        <<IF engine_run.calls[k].cb = "insert_text" THEN "insert_text" ELSE "set_text",
          engine_run.calls[k].text>>]

RECURSIVE EditCalls(_, _)
EditCalls(stmts, i) ==
    IF i > Len(stmts) THEN <<>>
    ELSE IF i \in Edits(stmts)
    THEN <<<<stmts[i].op, stmts[i].text>>>> \o EditCalls(stmts, i + 1)
    ELSE EditCalls(stmts, i + 1)

\* The entry point's body has been entered: all entry points of the model
\* begin with an edit of the text "m".
EntryInvoked == \E k \in 1..Len(MadeCalls) : MadeCalls[k][2] = <<"m">>

FailedWith(msg) ==
    /\ engine_run.ret = FALSE /\ ~engine_run.raised
    /\ host_engine.last_error = Error(msg, engine_run.entry)

\* C23: on either engine, a call with an entry point whose script ran
\* returns false with the error "Entry point '<name>' not found" when the
\* script bound no top-level value of that name, and with "Entry point
\* '<name>' is not callable" when it bound the name to a value that cannot
\* be called; the entry point is invoked only after the whole body has run.
C23_EntryPointFailures ==
    (RanScript /\ Truthy(engine_run.entry)) =>
        /\ (PlainBody /\ BoundAt(engine_run.entry) = 0)
              => FailedWith("Entry point not found")
        /\ (PlainBody /\ BoundAt(engine_run.entry) # 0
                      /\ RunBody[BoundAt(engine_run.entry)].op = "set_global")
              => FailedWith("Entry point is not callable")
        /\ EntryInvoked =>
              /\ PlainBody
              /\ Len(MadeCalls) >= Len(EditCalls(RunBody, 1))
              /\ SubSeq(MadeCalls, 1, Len(EditCalls(RunBody, 1))) = EditCalls(RunBody, 1)

\* C24: on either engine, execute_file and execute_string return true or
\* false for every input and let no exception out, and after a false return
\* the engine's last error is the captured failure.
C24_EnginesNeverRaise ==
    engine_run.op # None =>
        /\ ~engine_run.raised
        /\ ~engine_run.ret => host_engine.last_error # NoError

\* The statements the latest engine call was to run: the script's top
\* level and then the body of its entry point; the first statement among
\* them that calls the file-open primitive (0: none); the set_text edits
\* before that statement.
RunFlow ==
    IF /\ Truthy(engine_run.entry) /\ PlainBody /\ BoundAt(engine_run.entry) # 0
       /\ RunBody[BoundAt(engine_run.entry)].op = "def_func"
    THEN RunBody \o RunBody[BoundAt(engine_run.entry)].body
    ELSE RunBody

FirstOpen ==
    IF \E i \in 1..Len(RunFlow) : RunFlow[i].op = "call_open"
    THEN CHOOSE i \in 1..Len(RunFlow) :
             /\ RunFlow[i].op = "call_open"
             /\ \A j \in 1..(i - 1) : RunFlow[j].op # "call_open"
    ELSE 0

FailsPartway ==
    /\ RanScript /\ ScriptSource(engine_run.code).syntax_ok
    /\ FirstOpen # 0
    /\ \A j \in 1..(FirstOpen - 1) :
          RunFlow[j].op \in {"set_global", "def_func", "insert_text", "set_text"}

TextsSet == {j \in 1..(FirstOpen - 1) : RunFlow[j].op = "set_text"}

---------------------------------------------------------------------------
(* The bridge's cursor                                                     *)

\* C26: get_cursor_position returns the host's (line, column) plus one
\* each; set_cursor_position(l, c) with l, c >= 1 sets the host's cursor to
\* (l - 1, c - 1), so setting what was got leaves the host's cursor where it
\* was; a value below 1 becomes the host's position 0.
C26_CursorConversion ==
    computed.fn = "cursor" =>
        /\ computed.got = <<computed.host[1] + 1, computed.host[2] + 1>>
        /\ \A i \in 1..2 :
              /\ computed.args[i] >= 1 => computed.set[i] = computed.args[i] - 1
              /\ computed.args[i] < 1 => computed.set[i] = 0
        /\ computed.back = computed.host

\* A Lua script read the cursor at host position (2, 1), set (0, 3), which
\* put the host's cursor at (0, 2), and setting what it had read gave (2, 1).
C26_RoundTripAndClamp ==
    /\ computed.fn = "cursor" /\ computed.kind = "lua"
    /\ computed.host = <<2, 1>> /\ computed.got = <<3, 2>>
    /\ computed.args = <<0, 3>> /\ computed.set = <<0, 2>>
    /\ computed.back = <<2, 1>>

\* C27: on either engine a script reaches nothing but the admitted
\* built-ins and the editor bridge: whatever it tries in order to open a
\* file, import a module or use reflection fails or does nothing.
C27_SandboxConfinement == engine_run.op # None => engine_run.reached = {}

\* C29: on each engine, after any sequence of execute_file and
\* execute_string calls, the last error is unset exactly when the most
\* recent call returned true, or when no call was made yet: a successful
\* call clears the error of an earlier failed call and a failed call leaves
\* the error set.
C29_LastErrorTracksLatest ==
    /\ engine_run.op = None => host_engine.last_error = NoError
    /\ engine_run.op # None =>
          (host_engine.last_error = NoError <=> engine_run.ret)

\* What the context of the trigger the call named gives for the editor's
\* current language and file: "true", "false", or "raise" when it cannot be
\* evaluated.
ContextNow(p) ==
    Matches(Registry[p].triggers[FirstNamed(p)].context, editor.language,
            editor.file_path)

\* The call named a trigger of an enabled plugin without error whose action
\* is an action of that plugin, and the call ran that action, for every
\* kind of trigger and everything its context can give.
RanWhateverKindAndContext ==
    \A p \in Named :
        (TriggersNamed(p) # {} /\ ActionsOf(p, FirstNamed(p)) # {}) =>
            \A kind \in {"command", "shortcut", "on_save", "on_open"} :
                \A m \in {"true", "false", "raise"} :
                    (/\ Registry[p].triggers[FirstNamed(p)].type = kind
                     /\ ContextNow(p) = m)
                    => HandedOver

\* C30, as amended: for an enabled plugin without error, and with an
\* executor attached to the manager, execute_trigger hands the action of the trigger with the given id to the
\* executor and ends as execute ends, whatever the trigger's kind (command,
\* shortcut, on_save, on_open) and whatever its context gives for the
\* current language and file: that it matches, that it does not, or that
\* evaluating it would raise, which no execute_trigger call does.
C30_TriggerKindAndContextIgnored ==
    (dispatched.op = "execute_trigger" /\ dispatched.executor) =>
        RanWhateverKindAndContext

\* C30 as stated: for an enabled plugin, execute_trigger runs the action of
\* the trigger with the given id whatever the trigger's kind and whether or
\* not its context matches the current language and file.
C30_RunsForEveryEnabledPlugin ==
    dispatched.op = "execute_trigger" => RanWhateverKindAndContext

\* execute_trigger has run the action of an on_save trigger whose context
\* cannot be evaluated for the current language, and returned its result.
C30_OnSaveWithOtherContextRan ==
    /\ dispatched.op = "execute_trigger"
    /\ dispatched.ret = "true"
    /\ \E p \in Named :
          /\ TriggersNamed(p) # {}
          /\ Registry[p].triggers[FirstNamed(p)].type = "on_save"
          /\ ContextNow(p) = "raise"
          /\ Len(dispatched.segments) = 1
          /\ dispatched.segments[1].action \in ActionsOf(p, FirstNamed(p))

====
